---- MODULE Spec2Model ----
(***************************************************************************)
(* kubectx-timeout: the daemon's timeout engine (internal/daemon.go), the  *)
(* context switcher (internal/switcher.go), the activity record            *)
(* (internal/state.go), the shell activity tracker (internal/tracker.go),  *)
(* the configuration (internal/config.go) and the PID file                 *)
(* (internal/pidfile.go).                                                  *)
(*                                                                         *)
(* Time is counted in whole units (read: hours); the clock is the variable *)
(* now.  Every kubectl subprocess is one step that reads or writes the     *)
(* external kubeconfig (kubeCurrent, available).  Local computation that   *)
(* follows a read is part of the same step.                                *)
(***************************************************************************)
EXTENDS Integers, FiniteSets, Sequences, TLC

\* ------------------------------------------------------------------ bounds
MaxTime == 3
MaxDuration == 2
NumProcs == 3

\* --------------------------------------------------------------- constants
\* time.Time{}: the zero timestamp of a record that never saw activity
ZeroTime == 0
\* state.go: const stateVersion = 1
stateVersion == 1
\* state.go: TimeSinceLastActivity returns 24 * time.Hour for a zero timestamp
Day == 24
\* switcher.go: NewContextSwitcher sets maxRetries: 3
maxRetries == 3

TestProd == "test-prod"
TestDefault == "test-default"
Names == {TestProd, TestDefault}
\* kubectl config current-context prints nothing / fails: no current context
NoContext == ""
\* tracker.go: the context recorded when the current context cannot be read
Unknown == "unknown"

Durations == 1..MaxDuration

VARIABLES
    config,       \* Daemon.config: the configuration snapshot in effect
    now,          \* wall clock
    tickerPeriod, \* period of the time.Ticker created by Run
    nextTick,     \* time at which the ticker fires next
    tickPending,  \* ticker.C holds a tick (channel of capacity 1)
    stateFile,    \* content of the activity record file
    tmpFile,      \* content of the record's temporary file (path + ".tmp")
    shellOn,      \* the shell integration (kubectl wrapper) is installed
    kubeCurrent,  \* kubeconfig: current-context
    available,    \* kubeconfig: the contexts that exist
    quiet,        \* the environment has gone silent: no activity, no faults
    pc,           \* where the daemon's main goroutine is
    dElapsed,     \* checkTimeout: timeSince
    dCurrent,     \* checkTimeout: currentContext
    dTarget,      \* switchContext: toContext
    attempt,      \* SwitchContext: attempt
    dTs,          \* RecordActivity: the time.Now() the daemon took
    lastOutcome,  \* what the last finished tick returned and logged
    shPc,         \* where the shell's record-activity process is
    shCtx,        \* ActivityTracker.RecordActivity: context
    shTs,         \* RecordActivity: the time.Now() the shell process took
    pidFile,      \* content of the PID file
    alive,        \* the processes that exist
    gpc,          \* where each process is in PIDFile.Acquire
    existing,     \* PIDFile.Acquire: existingPID of each process
    heldAtStart,  \* history: the running daemons that held the PID file when
                  \* the process called Acquire
    cancelled,    \* Daemon.ctx is done (Daemon.cancel was called)
    sigChan,      \* Run: the signal waiting in sigChan (capacity 1)
    wpc,          \* where the goroutine of KubeconfigWatcher.Watch is
    wCtx,         \* handleConfigChange: currentContext
    wTs,          \* RecordActivity: the time.Now() the watcher took
    wakeAt,       \* watchWithFswatch: when its time.Sleep ends
    evPending,    \* fswatch has written an event the scanner has not read
    configPath,   \* the configPath NewDaemon was called with
    configFiles   \* content of the configuration file at each path

engineVars == <<config, now, tickerPeriod, nextTick, tickPending, stateFile, tmpFile, shellOn,
                kubeCurrent, available, quiet, pc, dElapsed, dCurrent, dTarget,
                attempt, dTs, lastOutcome, shPc, shCtx, shTs>>
guardVars == <<pidFile, alive, gpc, existing, heldAtStart>>
loopVars == <<cancelled, sigChan, wpc, wCtx, wTs, wakeAt, evPending,
              configPath, configFiles>>
vars == <<config, now, tickerPeriod, nextTick, tickPending, stateFile, tmpFile, shellOn,
          kubeCurrent, available, quiet, pc, dElapsed, dCurrent, dTarget,
          attempt, dTs, lastOutcome, shPc, shCtx, shTs,
          pidFile, alive, gpc, existing, heldAtStart,
          cancelled, sigChan, wpc, wCtx, wTs, wakeAt, evPending,
          configPath, configFiles>>

Min(a, b) == IF a < b THEN a ELSE b

\* ---------------------------------------------------------- configuration
\* Config.Validate
Validate(c) ==
    /\ c.DefaultContext # ""
    /\ c.DefaultContext # "CONFIGURE_ME"
    /\ c.Timeout.Default > 0
    /\ c.Timeout.CheckInterval > 0
    /\ ~(c.Timeout.CheckInterval > c.Timeout.Default)
    /\ c.Daemon.LogLevel \in {"debug", "info", "warn", "error"}
    /\ c.Notifications.Method \in {"terminal", "macos", "both"}
    /\ \A name \in DOMAIN c.Contexts : c.Contexts[name] > 0
    /\ (c.Safety.ValidateDefaultContext
          => c.DefaultContext \notin c.Safety.NeverSwitchTo)

\* Config.GetTimeoutForContext
GetTimeoutForContext(c, contextName) ==
    IF contextName \in DOMAIN c.Contexts
    THEN c.Contexts[contextName]
    ELSE c.Timeout.Default

\* per-context overrides: none, or one context with its own timeout
ContextOverrides ==
    {[n \in {} |-> 0]} \cup
    UNION {{[n \in {name} |-> d] : d \in Durations} : name \in Names}

\* the configuration files the daemon is started with
ConfigFiles ==
    [Timeout : [Default : Durations, CheckInterval : Durations],
     DefaultContext : {TestDefault},
     Contexts : ContextOverrides,
     Daemon : [Enabled : {TRUE}, LogLevel : {"info"}],
     Notifications : [Method : {"both"}],
     Safety : [NeverSwitchFrom : {{}, {TestProd}},
               NeverSwitchTo : {{}, {TestDefault}},
               ValidateDefaultContext : BOOLEAN]]

\* the optional sections a configuration file fills in
Sections(c) ==
    {"contexts" : x \in {1 : n \in DOMAIN c.Contexts}}
    \cup {"never_switch_from" : x \in c.Safety.NeverSwitchFrom}
    \cup {"never_switch_to" : x \in c.Safety.NeverSwitchTo}

\* LoadConfig succeeds on the files that pass Validate.  The files looked at
\* fill in at most one optional section; validate_default_context is left at
\* its default (true) unless never_switch_to is filled in.
LoadableConfigs ==
    {c \in ConfigFiles :
        /\ Validate(c)
        /\ Cardinality(Sections(c)) <= 1
        /\ (c.Safety.NeverSwitchTo = {} => c.Safety.ValidateDefaultContext)}

\* the configurations looked at together with the shell integration: no
\* optional section, the check interval below the default timeout
ShellConfigs ==
    {c \in LoadableConfigs :
        /\ Sections(c) = {}
        /\ c.Timeout.CheckInterval < c.Timeout.Default}

\* --------------------------------------------------------- activity record
NoFile == [kind |-> "absent", LastActivity |-> ZeroTime,
           CurrentContext |-> "", Version |-> stateVersion]
Garbage == [kind |-> "garbage", LastActivity |-> ZeroTime,
            CurrentContext |-> "", Version |-> stateVersion]
\* a record written by a newer release: version 2
Newer == [kind |-> "json", LastActivity |-> ZeroTime,
          CurrentContext |-> "", Version |-> stateVersion + 1]
Json(ts, ctx, v) == [kind |-> "json", LastActivity |-> ts,
                     CurrentContext |-> ctx, Version |-> v]

\* mutant: Load returns the empty State for a file it cannot use
Load_Defaults(file) ==
    IF file.kind = "json" /\ file.Version <= stateVersion
    THEN [err |-> FALSE, LastActivity |-> file.LastActivity,
          CurrentContext |-> file.CurrentContext, Version |-> file.Version]
    ELSE [err |-> FALSE, LastActivity |-> ZeroTime, CurrentContext |-> "",
          Version |-> stateVersion]

\* StateManager.Load: err, and the State when there is no error
Load(file) ==
    IF file.kind = "absent"
    THEN [err |-> FALSE, LastActivity |-> ZeroTime, CurrentContext |-> "",
          Version |-> stateVersion]
    ELSE IF file.kind = "garbage"
    THEN [err |-> TRUE, LastActivity |-> ZeroTime, CurrentContext |-> "",
          Version |-> stateVersion]
    ELSE IF file.Version > stateVersion
    THEN [err |-> TRUE, LastActivity |-> ZeroTime, CurrentContext |-> "",
          Version |-> stateVersion]
    ELSE [err |-> FALSE, LastActivity |-> file.LastActivity,
          CurrentContext |-> file.CurrentContext, Version |-> file.Version]

\* StateManager.Save: what json.MarshalIndent makes of the State, the version
\* set to stateVersion
Save(ts, ctx) == Json(ts, ctx, stateVersion)

\* StateManager.Save: os.Rename fails when the temporary file does not exist
CanRename(tmp) == tmp.kind # "absent"

\* StateManager.Save: what os.Rename of the temporary file does to a process
\* that has a file open for writing (between the open and the write of
\* os.WriteFile): the temporary file it has open becomes the record file, a
\* record file it has open is unlinked
Renamed(at) ==
    IF at = "write" THEN "write_state"
    ELSE IF at = "write_state" THEN "write_gone"
    ELSE at

\* the steps between the open and the write of os.WriteFile
WritePcs == {"write", "write_state", "write_gone"}

\* os.WriteFile writes the data through the open file: the temporary file,
\* the record file (the open file was renamed meanwhile), or an unlinked file
WrittenTmp(at, data) == IF at = "write" THEN data ELSE tmpFile
WrittenState(at, data) == IF at = "write_state" THEN data ELSE stateFile

\* mutant: no sentinel for a record without activity
TimeSinceLastActivity_NoSentinel(state, t) == t - state.LastActivity

\* mutant: the daemon measures from the last record it wrote itself
TimeSinceLastActivity_OwnRecord(state, t) ==
    IF dTs = ZeroTime THEN Day ELSE t - dTs

\* StateManager.TimeSinceLastActivity on a loaded State, at time t
TimeSinceLastActivity(state, t) ==
    IF state.LastActivity = ZeroTime THEN Day ELSE t - state.LastActivity

\* the contents the record file can have
StateFiles ==
    {NoFile, Garbage, Newer, Json(ZeroTime, "", stateVersion)}
    \cup {Json(1, ctx, stateVersion) : ctx \in Names}


\* ------------------------------------------------------------- environment
\* a kubectl subprocess exits zero (TRUE) or non-zero (FALSE)
ToolOutcomes == IF quiet THEN {TRUE} ELSE BOOLEAN

\* GetCurrentContext: the context, or NoContext for an error (kubectl fails
\* or prints no current context)
GetCurrentContext(ok) == IF ok THEN kubeCurrent ELSE NoContext

\* the daemon process is in NewDaemonWithPIDFile, or in Run before its loop
StartupPcs ==
    {"load", "failed", "new", "new_state", "new_record", "new_save",
     "new_write", "new_rename", "run"}

\* time passes
ClockAdvance ==
    /\ now < MaxTime
    /\ now' = now + 1
    /\ UNCHANGED <<config, tickerPeriod, nextTick, tickPending, stateFile, tmpFile, shellOn,
                   kubeCurrent, available, quiet, pc, dElapsed, dCurrent,
                   dTarget, attempt, dTs, lastOutcome, shPc, shCtx, shTs>>
    /\ UNCHANGED guardVars
    /\ UNCHANGED loopVars

\* the time.Ticker of Run delivers a tick every tickerPeriod; a tick that
\* finds the channel full is dropped.  The clock stops at MaxTime and the
\* ticker keeps firing there.
TickerFire ==
    /\ pc \notin StartupPcs
    /\ now >= nextTick
    /\ ~tickPending
    /\ tickPending' = TRUE
    /\ nextTick' = Min(nextTick + tickerPeriod, MaxTime)
    /\ UNCHANGED <<config, now, tickerPeriod, stateFile, tmpFile, shellOn, kubeCurrent,
                   available, quiet, pc, dElapsed, dCurrent, dTarget, attempt,
                   dTs, lastOutcome, shPc, shCtx, shTs>>
    /\ UNCHANGED guardVars
    /\ UNCHANGED loopVars

\* the user (or any other tool) changes the current context of the kubeconfig
UserSwitch ==
    /\ ~quiet
    /\ \E c \in available \ {kubeCurrent} : kubeCurrent' = c
    /\ UNCHANGED <<config, now, tickerPeriod, nextTick, tickPending, stateFile, tmpFile, shellOn,
                   available, quiet, pc, dElapsed, dCurrent, dTarget, attempt,
                   dTs, lastOutcome, shPc, shCtx, shTs>>
    /\ UNCHANGED guardVars
    /\ UNCHANGED loopVars

\* from here on nobody records activity or changes the kubeconfig, and the
\* external tool succeeds
GoQuiet ==
    /\ ~quiet
    /\ shPc = "idle"
    /\ quiet' = TRUE
    /\ UNCHANGED <<config, now, tickerPeriod, nextTick, tickPending, stateFile, tmpFile, shellOn,
                   kubeCurrent, available, pc, dElapsed, dCurrent, dTarget,
                   attempt, dTs, lastOutcome, shPc, shCtx, shTs>>
    /\ UNCHANGED guardVars
    /\ UNCHANGED loopVars

\* ------------------------------------------- shell: kubectx-timeout record-activity
\* ActivityTracker.RecordActivity: read the current context
Shell_GetCurrentContext ==
    /\ shellOn
    /\ ~quiet
    /\ shPc = "idle"
    /\ \E ok \in BOOLEAN :
          shCtx' = IF GetCurrentContext(ok) = NoContext
                   THEN Unknown ELSE GetCurrentContext(ok)
    /\ shPc' = "load"
    /\ UNCHANGED <<config, now, tickerPeriod, nextTick, tickPending, stateFile, tmpFile, shellOn,
                   kubeCurrent, available, quiet, pc, dElapsed, dCurrent,
                   dTarget, attempt, dTs, lastOutcome, shTs>>
    /\ UNCHANGED guardVars
    /\ UNCHANGED loopVars

\* StateManager.RecordActivity: Load, then time.Now()
Shell_Load ==
    /\ shPc = "load"
    /\ IF Load(stateFile).err
       THEN /\ shPc' = "idle"
            /\ shCtx' = NoContext
            /\ shTs' = ZeroTime
       ELSE /\ shPc' = "save"
            /\ shTs' = now
            /\ shCtx' = shCtx
    /\ UNCHANGED <<config, now, tickerPeriod, nextTick, tickPending, stateFile, tmpFile, shellOn,
                   kubeCurrent, available, quiet, pc, dElapsed, dCurrent,
                   dTarget, attempt, dTs, lastOutcome>>
    /\ UNCHANGED guardVars
    /\ UNCHANGED loopVars

\* StateManager.RecordActivity: Save, os.WriteFile opens the temporary file
\* with O_CREATE|O_TRUNC
Shell_OpenTmp ==
    /\ shPc = "save"
    /\ tmpFile' = Garbage
    /\ shPc' = "write"
    /\ UNCHANGED <<config, now, tickerPeriod, nextTick, tickPending, stateFile,
                   shellOn, kubeCurrent, available, quiet, pc, dElapsed,
                   dCurrent, dTarget, attempt, dTs, lastOutcome, shCtx, shTs>>
    /\ UNCHANGED guardVars
    /\ UNCHANGED loopVars

\* StateManager.RecordActivity: Save, os.WriteFile writes the data and closes
Shell_WriteTmp ==
    /\ shPc \in WritePcs
    /\ tmpFile' = WrittenTmp(shPc, Save(shTs, shCtx))
    /\ stateFile' = WrittenState(shPc, Save(shTs, shCtx))
    /\ shPc' = "rename"
    /\ UNCHANGED <<config, now, tickerPeriod, nextTick, tickPending,
                   shellOn, kubeCurrent, available, quiet, pc, dElapsed,
                   dCurrent, dTarget, attempt, dTs, lastOutcome, shCtx, shTs>>
    /\ UNCHANGED guardVars
    /\ UNCHANGED loopVars

\* StateManager.RecordActivity: Save, os.Rename of the temporary file; the
\* process exits, with an error when the temporary file is gone
Shell_Rename ==
    /\ shPc = "rename"
    /\ IF CanRename(tmpFile)
       THEN /\ stateFile' = tmpFile
            /\ tmpFile' = NoFile
            /\ pc' = Renamed(pc)
       ELSE UNCHANGED <<stateFile, tmpFile, pc>>
    /\ shPc' = "idle"
    /\ shCtx' = NoContext
    /\ shTs' = ZeroTime
    /\ UNCHANGED <<config, now, tickerPeriod, nextTick, tickPending, shellOn,
                   kubeCurrent, available, quiet, dElapsed, dCurrent,
                   dTarget, attempt, dTs, lastOutcome>>
    /\ UNCHANGED guardVars
    /\ UNCHANGED loopVars

\* ------------------------------------------------ daemon: the timeout engine
\* mutant: a tick that ends with an error ends the main loop
TickReturns_ErrorExits(outcome) ==
    /\ pc' = IF outcome = "error" THEN "stopped" ELSE "idle"
    /\ lastOutcome' = outcome
    /\ dElapsed' = 0
    /\ dCurrent' = NoContext
    /\ dTarget' = NoContext
    /\ attempt' = 0
    /\ dTs' = ZeroTime

\* checkTimeout returns to the select loop of Run; what it logged is kept
TickReturns(outcome) ==
    /\ pc' = "idle"
    /\ lastOutcome' = outcome
    /\ dElapsed' = 0
    /\ dCurrent' = NoContext
    /\ dTarget' = NoContext
    /\ attempt' = 0
    /\ dTs' = ZeroTime

\* mutant: the never_switch_from filter is skipped
InNeverSwitchFrom_Skipped(c, currentContext) == FALSE

\* checkTimeout: for _, ctx := range NeverSwitchFrom { if ctx == currentContext
InNeverSwitchFrom(c, currentContext) ==
    currentContext \in c.Safety.NeverSwitchFrom

\* mutant: the "already the default" check is skipped
IsDefaultContext_Skipped(c, currentContext) == FALSE

\* checkTimeout: if currentContext == d.config.DefaultContext
IsDefaultContext(c, currentContext) == currentContext = c.DefaultContext

\* mutant: every tick finds the timeout exceeded
TimeoutExceeded_Always(timeSince, timeout) == TRUE

\* mutant: the threshold is reached one unit early
TimeoutExceeded_Early(timeSince, timeout) == timeSince + 1 >= timeout

\* mutant: the comparison is strict
TimeoutExceeded_Strict(timeSince, timeout) == timeSince > timeout

\* checkTimeout: if timeSince >= timeout
TimeoutExceeded(timeSince, timeout) == timeSince >= timeout

\* mutant: the never_switch_to check is skipped
InNeverSwitchTo_Skipped(neverSwitchTo, targetContext) == FALSE

\* SwitchContextSafe: for _, ctx := range neverSwitchTo { if ctx == targetContext
InNeverSwitchTo(neverSwitchTo, targetContext) ==
    targetContext \in neverSwitchTo

\* mutant: every name passes for an existing context
ContextExists_Skipped(contexts, contextName) == TRUE

\* ValidateContext: for _, ctx := range contexts { if ctx == contextName
ContextExists(contexts, contextName) == contextName \in contexts

\* mutant: a failed attempt is never retried
MayRetry_Never(n) == FALSE

\* SwitchContext: for attempt := 1; attempt <= cs.maxRetries; attempt++
MayRetry(n) == n < maxRetries

\* mutant: switchContext goes on to RecordActivity although the switch failed
switchContext_Failed_Records ==
    /\ pc' = "record"
    /\ UNCHANGED <<dElapsed, dCurrent, dTarget, attempt, dTs, lastOutcome>>

\* switchContext: SwitchContextSafe returned an error; switchContext and
\* checkTimeout return it, Run logs it
switchContext_Failed == TickReturns("error")

\* Run, case <-ticker.C; checkTimeout: TimeSinceLastActivity
checkTimeout_TimeSince ==
    /\ pc = "idle"
    /\ tickPending
    /\ tickPending' = FALSE
    /\ IF Load(stateFile).err
       THEN TickReturns("error")
       ELSE /\ pc' = "current"
            /\ dElapsed' = TimeSinceLastActivity(Load(stateFile), now)
            /\ UNCHANGED <<dCurrent, dTarget, attempt, dTs, lastOutcome>>
    /\ UNCHANGED <<config, now, tickerPeriod, nextTick, stateFile, tmpFile, shellOn, kubeCurrent,
                   available, quiet, shPc, shCtx, shTs>>
    /\ UNCHANGED guardVars
    /\ UNCHANGED loopVars

\* mutant: the daemon switches to a context that is not the default one
SwitchTarget_NotDefault(c) == CHOOSE n \in Names : n # c.DefaultContext

\* checkTimeout: targetContext := d.config.DefaultContext
SwitchTarget(c) == c.DefaultContext

\* checkTimeout: what follows the read of the current context
checkTimeout_Decide(currentContext) ==
    IF currentContext = NoContext
    THEN TickReturns("noop")
    ELSE IF InNeverSwitchFrom(config, currentContext)
    THEN TickReturns("noop")
    ELSE IF IsDefaultContext(config, currentContext)
    THEN TickReturns("noop")
    ELSE IF TimeoutExceeded(dElapsed,
                            GetTimeoutForContext(config, currentContext))
    THEN /\ pc' = "safe"
         /\ dCurrent' = currentContext
         /\ dTarget' = SwitchTarget(config)
         /\ UNCHANGED <<dElapsed, attempt, dTs, lastOutcome>>
    ELSE TickReturns("noop")

\* checkTimeout: GetCurrentContext, the filters, the threshold
checkTimeout_Current ==
    /\ pc = "current"
    /\ \E ok \in ToolOutcomes : checkTimeout_Decide(GetCurrentContext(ok))
    /\ UNCHANGED <<config, now, tickerPeriod, nextTick, tickPending, stateFile, tmpFile, shellOn,
                   kubeCurrent, available, quiet, shPc, shCtx, shTs>>
    /\ UNCHANGED guardVars
    /\ UNCHANGED loopVars

\* switchContext -> SwitchContextSafe: the never_switch_to check
SwitchContextSafe ==
    /\ pc = "safe"
    /\ IF InNeverSwitchTo(config.Safety.NeverSwitchTo, dTarget)
       THEN switchContext_Failed
       ELSE /\ pc' = "sw_current"
            /\ UNCHANGED <<dElapsed, dCurrent, dTarget, attempt, dTs,
                           lastOutcome>>
    /\ UNCHANGED <<config, now, tickerPeriod, nextTick, tickPending, stateFile, tmpFile, shellOn,
                   kubeCurrent, available, quiet, shPc, shCtx, shTs>>
    /\ UNCHANGED guardVars
    /\ UNCHANGED loopVars

\* mutant: switchContext returns without recording the activity
switchContext_Switched_NoRecord == TickReturns("switched")

\* switchContext: SwitchContextSafe returned nil; RecordActivity comes next
switchContext_Switched ==
    /\ pc' = "record"
    /\ UNCHANGED <<dElapsed, dCurrent, dTarget, attempt, dTs, lastOutcome>>

\* SwitchContext: GetCurrentContext, "already on context"
SwitchContext_Current ==
    /\ pc = "sw_current"
    /\ \E ok \in ToolOutcomes :
          IF GetCurrentContext(ok) = NoContext
          THEN switchContext_Failed
          ELSE IF GetCurrentContext(ok) = dTarget
          THEN switchContext_Switched
          ELSE /\ pc' = "validate"
               /\ UNCHANGED <<dElapsed, dCurrent, dTarget, attempt, dTs,
                              lastOutcome>>
    /\ UNCHANGED <<config, now, tickerPeriod, nextTick, tickPending, stateFile, tmpFile, shellOn,
                   kubeCurrent, available, quiet, shPc, shCtx, shTs>>
    /\ UNCHANGED guardVars
    /\ UNCHANGED loopVars

\* SwitchContext -> ValidateContext: the target is in ListContexts
ValidateContext ==
    /\ pc = "validate"
    /\ \E ok \in ToolOutcomes :
          IF ~ok \/ ~ContextExists(available, dTarget)
          THEN switchContext_Failed
          ELSE /\ pc' = "exec"
               /\ attempt' = 1
               /\ UNCHANGED <<dElapsed, dCurrent, dTarget, dTs, lastOutcome>>
    /\ UNCHANGED <<config, now, tickerPeriod, nextTick, tickPending, stateFile, tmpFile, shellOn,
                   kubeCurrent, available, quiet, shPc, shCtx, shTs>>
    /\ UNCHANGED guardVars
    /\ UNCHANGED loopVars

\* SwitchContext: one attempt of executeSwitch (kubectl config use-context)
executeSwitch ==
    /\ pc = "exec"
    /\ \E ok \in ToolOutcomes :
          IF ok
          THEN /\ kubeCurrent' = dTarget
               /\ switchContext_Switched
          ELSE /\ kubeCurrent' = kubeCurrent
               /\ IF MayRetry(attempt)
                  THEN /\ attempt' = attempt + 1
                       /\ UNCHANGED <<pc, dElapsed, dCurrent, dTarget, dTs,
                                      lastOutcome>>
                  ELSE switchContext_Failed
    /\ UNCHANGED <<config, now, tickerPeriod, nextTick, tickPending, stateFile, tmpFile, shellOn,
                   available, quiet, shPc, shCtx, shTs>>
    /\ UNCHANGED guardVars
    /\ UNCHANGED loopVars

\* switchContext: RecordActivity(toContext): Load, then time.Now(); an error
\* is logged as a warning and switchContext returns nil
switchContext_RecordLoad ==
    /\ pc = "record"
    /\ IF Load(stateFile).err
       THEN TickReturns("switched, record not written")
       ELSE /\ pc' = "save"
            /\ dTs' = now
            /\ UNCHANGED <<dElapsed, dCurrent, dTarget, attempt, lastOutcome>>
    /\ UNCHANGED <<config, now, tickerPeriod, nextTick, tickPending, stateFile, tmpFile, shellOn,
                   kubeCurrent, available, quiet, shPc, shCtx, shTs>>
    /\ UNCHANGED guardVars
    /\ UNCHANGED loopVars

\* switchContext: RecordActivity(toContext): Save, os.WriteFile opens the
\* temporary file with O_CREATE|O_TRUNC
switchContext_RecordOpenTmp ==
    /\ pc = "save"
    /\ tmpFile' = Garbage
    /\ pc' = "write"
    /\ UNCHANGED <<config, now, tickerPeriod, nextTick, tickPending, stateFile,
                   shellOn, kubeCurrent, available, quiet, dElapsed, dCurrent,
                   dTarget, attempt, dTs, lastOutcome, shPc, shCtx, shTs>>
    /\ UNCHANGED guardVars
    /\ UNCHANGED loopVars

\* switchContext: RecordActivity(toContext): Save, os.WriteFile writes the
\* data and closes
switchContext_RecordWriteTmp ==
    /\ pc \in WritePcs
    /\ tmpFile' = WrittenTmp(pc, Save(dTs, dTarget))
    /\ stateFile' = WrittenState(pc, Save(dTs, dTarget))
    /\ pc' = "rename"
    /\ UNCHANGED <<config, now, tickerPeriod, nextTick, tickPending,
                   shellOn, kubeCurrent, available, quiet, dElapsed, dCurrent,
                   dTarget, attempt, dTs, lastOutcome, shPc, shCtx, shTs>>
    /\ UNCHANGED guardVars
    /\ UNCHANGED loopVars

\* switchContext: RecordActivity(toContext): Save, os.Rename of the temporary
\* file; an error is logged as a warning and switchContext returns nil
switchContext_RecordRename ==
    /\ pc = "rename"
    /\ IF CanRename(tmpFile)
       THEN /\ stateFile' = tmpFile
            /\ tmpFile' = NoFile
            /\ shPc' = Renamed(shPc)
            /\ TickReturns("switched")
       ELSE /\ UNCHANGED <<stateFile, tmpFile, shPc>>
            /\ TickReturns("switched, record not written")
    /\ UNCHANGED <<config, now, tickerPeriod, nextTick, tickPending, shellOn,
                   kubeCurrent, available, quiet, shCtx, shTs>>
    /\ UNCHANGED guardVars
    /\ UNCHANGED loopVars

\* one step of the daemon's main goroutine
DaemonStep ==
    \/ checkTimeout_TimeSince
    \/ checkTimeout_Current
    \/ SwitchContextSafe
    \/ SwitchContext_Current
    \/ ValidateContext
    \/ executeSwitch
    \/ switchContext_RecordLoad
    \/ switchContext_RecordOpenTmp
    \/ switchContext_RecordWriteTmp
    \/ switchContext_RecordRename

\* ------------------------------------------------------------- PID file
\* the processes that run "kubectx-timeout daemon", named by their pid
Procs == 1..NumProcs
\* existingPID before ReadPID has returned a pid
NoPid == 0

NoPidFile == [kind |-> "absent", pid |-> NoPid]
\* a PID file that os.WriteFile has created or truncated and not yet written,
\* or any other content that strconv.Atoi rejects
EmptyPidFile == [kind |-> "garbage", pid |-> NoPid]
\* Acquire: []byte(pidStr+"\n")
PidContent(pid) == [kind |-> "pid", pid |-> pid]

\* PIDFile.ReadPID: os.ReadFile, strings.TrimSpace, strconv.Atoi
ReadPID(file) ==
    IF file.kind = "pid"
    THEN [err |-> FALSE, pid |-> file.pid]
    ELSE [err |-> TRUE, pid |-> NoPid]

\* mutant: the probe reports every process as running
isProcessRunning_Always(pid) == TRUE

\* PIDFile.isProcessRunning: signal 0 reaches the process
isProcessRunning(pid) == pid \in alive

\* the processes whose Acquire is between the open and the write of
\* os.WriteFile lose the file when it is removed: their write goes to the
\* unlinked file
Unlinked(g) ==
    [q \in Procs |-> IF g[q] = "fill" THEN "fill_unlinked" ELSE g[q]]

\* the daemons that run and hold the PID file (Acquire returned nil)
Holders == {q \in alive : gpc[q] = "held"}

\* no daemon process has been started
NoProcesses ==
    /\ pidFile = NoPidFile
    /\ alive = {}
    /\ gpc = [p \in Procs |-> "none"]
    /\ existing = [p \in Procs |-> NoPid]
    /\ heldAtStart = [p \in Procs |-> {}]

\* cmdDaemon -> Run -> Acquire: a daemon process is started; os.MkdirAll
Start(p) ==
    /\ gpc[p] = "none"
    /\ alive' = alive \cup {p}
    /\ gpc' = [gpc EXCEPT ![p] = "stat"]
    /\ heldAtStart' = [heldAtStart EXCEPT ![p] = Holders]
    /\ UNCHANGED <<pidFile, existing>>
    /\ UNCHANGED engineVars
    /\ UNCHANGED loopVars

\* Acquire: if _, err := os.Stat(p.path); err == nil
Acquire_Stat(p) ==
    /\ gpc[p] = "stat"
    /\ gpc' = [gpc EXCEPT ![p] = IF pidFile.kind # "absent"
                                 THEN "read" ELSE "write"]
    /\ UNCHANGED <<pidFile, alive, existing, heldAtStart>>
    /\ UNCHANGED engineVars
    /\ UNCHANGED loopVars

\* Acquire: existingPID, err := p.ReadPID(); with an error the file is
\* taken for stale
Acquire_ReadPID(p) ==
    /\ gpc[p] = "read"
    /\ existing' = [existing EXCEPT ![p] = ReadPID(pidFile).pid]
    /\ gpc' = [gpc EXCEPT ![p] = IF ReadPID(pidFile).err
                                 THEN "remove" ELSE "probe"]
    /\ UNCHANGED <<pidFile, alive, heldAtStart>>
    /\ UNCHANGED engineVars
    /\ UNCHANGED loopVars

\* Acquire: p.isProcessRunning(existingPID): "daemon is already running with
\* PID %d" (Run returns the error and the process exits), or the file is
\* stale
Acquire_isProcessRunning(p) ==
    /\ gpc[p] = "probe"
    /\ IF isProcessRunning(existing[p])
       THEN /\ gpc' = [gpc EXCEPT ![p] = "failed"]
            /\ alive' = alive \ {p}
       ELSE /\ gpc' = [gpc EXCEPT ![p] = "remove"]
            /\ alive' = alive
    /\ UNCHANGED <<pidFile, existing, heldAtStart>>
    /\ UNCHANGED engineVars
    /\ UNCHANGED loopVars

\* Acquire: _ = os.Remove(p.path)
Acquire_Remove(p) ==
    /\ gpc[p] = "remove"
    /\ pidFile' = NoPidFile
    /\ gpc' = [Unlinked(gpc) EXCEPT ![p] = "write"]
    /\ UNCHANGED <<alive, existing, heldAtStart>>
    /\ UNCHANGED engineVars
    /\ UNCHANGED loopVars

\* Acquire: os.WriteFile opens the file with O_CREATE|O_TRUNC
Acquire_WriteFile_Open(p) ==
    /\ gpc[p] = "write"
    /\ pidFile' = EmptyPidFile
    /\ gpc' = [gpc EXCEPT ![p] = "fill"]
    /\ UNCHANGED <<alive, existing, heldAtStart>>
    /\ UNCHANGED engineVars
    /\ UNCHANGED loopVars

\* Acquire: os.WriteFile writes the pid and closes; Acquire returns nil
Acquire_WriteFile_Write(p) ==
    /\ gpc[p] \in {"fill", "fill_unlinked"}
    /\ pidFile' = IF gpc[p] = "fill" THEN PidContent(p) ELSE pidFile
    /\ gpc' = [gpc EXCEPT ![p] = "held"]
    /\ UNCHANGED <<alive, existing, heldAtStart>>
    /\ UNCHANGED engineVars
    /\ UNCHANGED loopVars

\* mutant: Release leaves the file where it is
Removed_Kept(file) == file

\* PIDFile.Release: os.Remove(p.path), whatever the file holds
Removed(file) == NoPidFile

\* Daemon.Shutdown (Run on SIGINT/SIGTERM, or a caller of Shutdown): cancel
\* the context and Release the PID file; Run has not returned yet
Shutdown(p) ==
    /\ gpc[p] = "held"
    /\ p \in alive
    /\ pidFile' = Removed(pidFile)
    /\ gpc' = [Unlinked(gpc) EXCEPT ![p] = "stopping"]
    /\ UNCHANGED <<alive, existing, heldAtStart>>
    /\ UNCHANGED engineVars
    /\ UNCHANGED loopVars

\* Run returns (after Shutdown, or on the cancelled context): the deferred
\* PIDFile.Release removes the file, and the process exits; what it knew of
\* the file goes with it
Release(p) ==
    /\ gpc[p] \in {"held", "stopping"}
    /\ p \in alive
    /\ pidFile' = Removed(pidFile)
    /\ gpc' = [Unlinked(gpc) EXCEPT ![p] = "exited"]
    /\ alive' = alive \ {p}
    /\ existing' = [existing EXCEPT ![p] = NoPid]
    /\ heldAtStart' = [heldAtStart EXCEPT ![p] = {}]
    /\ UNCHANGED engineVars
    /\ UNCHANGED loopVars

\* the process is killed (SIGKILL, power loss) while it holds the PID file
\* or has it open for writing: nothing is released.  A death at any other
\* step of Acquire leaves the file as if the process had never started.
Kill(p) ==
    /\ p \in alive
    /\ gpc[p] \in {"fill", "held"}
    /\ alive' = alive \ {p}
    /\ gpc' = [gpc EXCEPT ![p] = "killed"]
    /\ existing' = [existing EXCEPT ![p] = NoPid]
    /\ heldAtStart' = [heldAtStart EXCEPT ![p] = {}]
    /\ UNCHANGED pidFile
    /\ UNCHANGED engineVars
    /\ UNCHANGED loopVars

\* ------------------------------------------------------ daemon: the startup
\* the pid of the daemon process whose goroutine pc follows
DaemonPid == 1

\* a record last written before the clock of the model started, more than any
\* timeout ago
StaleFiles == {Json(0 - MaxDuration, ctx, stateVersion) : ctx \in Names}

\* NewDaemonWithPIDFile returns the daemon (a failed startup check is logged
\* as a warning); cmdDaemon calls Run
Started(outcome) ==
    /\ pc' = "run"
    /\ lastOutcome' = outcome
    /\ dElapsed' = 0
    /\ dCurrent' = NoContext
    /\ dTarget' = NoContext
    /\ attempt' = 0
    /\ dTs' = ZeroTime

\* mutant: a stale timestamp is never reset at startup
StartupStale_Never(timeSinceActivity, timeout) == FALSE

\* checkContextChangeOnStartup: if timeSinceActivity > timeout
StartupStale(timeSinceActivity, timeout) == timeSinceActivity > timeout

\* mutant: a changed context is not noticed at startup
ContextChanged_Never(lastContext, currentContext) == FALSE

\* checkContextChangeOnStartup: lastContext != "" && lastContext != currentContext
ContextChanged(lastContext, currentContext) ==
    lastContext # "" /\ lastContext # currentContext

\* checkContextChangeOnStartup: the cases in which RecordActivity is called
\* for the current context: the record cannot be loaded, its timestamp is
\* zero, its context differs, or its timestamp is stale
NeedsFreshRecord(file, currentContext, t) ==
    \/ Load(file).err
    \/ Load(file).LastActivity = ZeroTime
    \/ ContextChanged(Load(file).CurrentContext, currentContext)
    \/ StartupStale(t - Load(file).LastActivity,
                    GetTimeoutForContext(config, currentContext))

\* checkContextChangeOnStartup: the local timeSinceActivity := time.Since(
\* lastActivity), set when the first three cases did not apply
timeSinceActivity(file, currentContext, t) ==
    IF \/ Load(file).err
       \/ Load(file).LastActivity = ZeroTime
       \/ ContextChanged(Load(file).CurrentContext, currentContext)
    THEN 0
    ELSE t - Load(file).LastActivity

\* what the log of a startup that rewrote the record says: "Daemon was down
\* for %v (longer than timeout %v), resetting activity timer", "Context
\* changed from '%s' to '%s' while daemon was down, resetting activity
\* timer", or one of the messages of the first two cases
ResetLogged(file, currentContext, elapsed) ==
    IF elapsed > 0
    THEN "started, stale record reset"
    ELSE IF /\ ~Load(file).err
            /\ Load(file).LastActivity # ZeroTime
            /\ Load(file).CurrentContext \notin {"", currentContext}
    THEN "started, context changed, record reset"
    ELSE "started, record reset"

\* the startups that rewrote the record
ResetOutcomes ==
    {"started, record reset", "started, context changed, record reset",
     "started, stale record reset"}

\* checkContextChangeOnStartup: GetCurrentContext; on an error the check is
\* skipped
checkContextChangeOnStartup_Current ==
    /\ pc = "new"
    /\ \E ok \in ToolOutcomes :
          IF GetCurrentContext(ok) = NoContext
          THEN Started("started")
          ELSE /\ pc' = "new_state"
               /\ dCurrent' = GetCurrentContext(ok)
               /\ UNCHANGED <<dElapsed, dTarget, attempt, dTs, lastOutcome>>
    /\ UNCHANGED <<config, now, tickerPeriod, nextTick, tickPending, stateFile,
                   tmpFile, shellOn, kubeCurrent, available, quiet, shPc,
                   shCtx, shTs>>
    /\ UNCHANGED guardVars
    /\ UNCHANGED loopVars

\* checkContextChangeOnStartup: GetLastActivity and the four cases
checkContextChangeOnStartup_State ==
    /\ pc = "new_state"
    /\ IF NeedsFreshRecord(stateFile, dCurrent, now)
       THEN /\ pc' = "new_record"
            /\ dElapsed' = timeSinceActivity(stateFile, dCurrent, now)
            /\ UNCHANGED <<dCurrent, dTarget, attempt, dTs, lastOutcome>>
       ELSE Started("started")
    /\ UNCHANGED <<config, now, tickerPeriod, nextTick, tickPending, stateFile,
                   tmpFile, shellOn, kubeCurrent, available, quiet, shPc,
                   shCtx, shTs>>
    /\ UNCHANGED guardVars
    /\ UNCHANGED loopVars

\* checkContextChangeOnStartup: RecordActivity(currentContext): Load, then
\* time.Now(); an error is returned and logged as a warning
checkContextChangeOnStartup_RecordLoad ==
    /\ pc = "new_record"
    /\ IF Load(stateFile).err
       THEN Started("started, warning")
       ELSE /\ pc' = "new_save"
            /\ dTs' = now
            /\ UNCHANGED <<dElapsed, dCurrent, dTarget, attempt, lastOutcome>>
    /\ UNCHANGED <<config, now, tickerPeriod, nextTick, tickPending, stateFile,
                   tmpFile, shellOn, kubeCurrent, available, quiet, shPc,
                   shCtx, shTs>>
    /\ UNCHANGED guardVars
    /\ UNCHANGED loopVars

\* checkContextChangeOnStartup: RecordActivity: Save, os.WriteFile opens the
\* temporary file
checkContextChangeOnStartup_RecordOpenTmp ==
    /\ pc = "new_save"
    /\ tmpFile' = Garbage
    /\ pc' = "new_write"
    /\ UNCHANGED <<config, now, tickerPeriod, nextTick, tickPending, stateFile,
                   shellOn, kubeCurrent, available, quiet, dElapsed, dCurrent,
                   dTarget, attempt, dTs, lastOutcome, shPc, shCtx, shTs>>
    /\ UNCHANGED guardVars
    /\ UNCHANGED loopVars

\* checkContextChangeOnStartup: RecordActivity: Save, os.WriteFile writes
checkContextChangeOnStartup_RecordWriteTmp ==
    /\ pc = "new_write"
    /\ tmpFile' = Save(dTs, dCurrent)
    /\ pc' = "new_rename"
    /\ UNCHANGED <<config, now, tickerPeriod, nextTick, tickPending, stateFile,
                   shellOn, kubeCurrent, available, quiet, dElapsed, dCurrent,
                   dTarget, attempt, dTs, lastOutcome, shPc, shCtx, shTs>>
    /\ UNCHANGED guardVars
    /\ UNCHANGED loopVars

\* checkContextChangeOnStartup: RecordActivity: Save, os.Rename
checkContextChangeOnStartup_RecordRename ==
    /\ pc = "new_rename"
    /\ IF CanRename(tmpFile)
       THEN /\ stateFile' = tmpFile
            /\ tmpFile' = NoFile
            /\ Started(ResetLogged(stateFile, dCurrent, dElapsed))
       ELSE /\ UNCHANGED <<stateFile, tmpFile>>
            /\ Started("started, warning")
    /\ UNCHANGED <<config, now, tickerPeriod, nextTick, tickPending, shellOn,
                   kubeCurrent, available, quiet, shPc, shCtx, shTs>>
    /\ UNCHANGED guardVars
    /\ UNCHANGED loopVars

\* Run: d.pidFile.Acquire() is called
Run_Acquire ==
    /\ pc = "run"
    /\ config.Daemon.Enabled
    /\ Start(DaemonPid)

\* Run: Acquire returned nil; the ticker is created and the loop entered
Run_Loop ==
    /\ pc = "run"
    /\ gpc[DaemonPid] = "held"
    /\ pc' = "idle"
    /\ nextTick' = now + tickerPeriod
    /\ tickPending' = FALSE
    /\ UNCHANGED <<config, now, tickerPeriod, stateFile, tmpFile, shellOn,
                   kubeCurrent, available, quiet, dElapsed, dCurrent, dTarget,
                   attempt, dTs, lastOutcome, shPc, shCtx, shTs>>
    /\ UNCHANGED guardVars
    /\ UNCHANGED loopVars

\* ------------------------------------- daemon: cancellation and the watcher
\* watchWithFswatch: time.Sleep(5 * time.Second) before fswatch is restarted
restartDelay == 5

watcherVars == <<wpc, wCtx, wTs, wakeAt, evPending>>
reloadVars == <<configPath, configFiles>>

\* Run has returned, or the process has exited
Returned == {"returned", "exit"}

\* the watcher goroutine has ended: Watch returned, or the process exited
WatcherGone == {"off", "disabled", "exited", "killed"}

\* signal.Notify(sigChan, SIGINT, SIGTERM, SIGHUP): a signal is put into
\* sigChan; it is dropped when the channel is full
Signal(sig) ==
    /\ pc \notin StartupPcs \cup Returned
    /\ sigChan = "none"
    /\ sigChan' = sig
    /\ UNCHANGED <<cancelled, watcherVars, reloadVars>>
    /\ UNCHANGED engineVars
    /\ UNCHANGED guardVars

\* Run: case <-d.ctx.Done(): return nil
Run_Done ==
    /\ pc = "idle"
    /\ cancelled
    /\ pc' = "returned"
    /\ UNCHANGED <<config, now, tickerPeriod, nextTick, tickPending, stateFile,
                   tmpFile, shellOn, kubeCurrent, available, quiet, dElapsed,
                   dCurrent, dTarget, attempt, dTs, lastOutcome, shPc, shCtx,
                   shTs>>
    /\ UNCHANGED guardVars
    /\ UNCHANGED loopVars

\* Run: case sig := <-sigChan, SIGINT or SIGTERM: d.Shutdown() cancels the
\* context; return nil
Run_Shutdown ==
    /\ pc = "idle"
    /\ sigChan = "SIGTERM"
    /\ sigChan' = "none"
    /\ cancelled' = TRUE
    /\ pc' = "returned"
    /\ UNCHANGED <<config, now, tickerPeriod, nextTick, tickPending, stateFile,
                   tmpFile, shellOn, kubeCurrent, available, quiet, dElapsed,
                   dCurrent, dTarget, attempt, dTs, lastOutcome, shPc, shCtx,
                   shTs>>
    /\ UNCHANGED guardVars
    /\ UNCHANGED <<watcherVars, reloadVars>>

\* Daemon.Shutdown called by the owner of the Daemon from another goroutine
\* while Run is in its loop: d.cancel()
Daemon_Shutdown ==
    /\ pc \notin StartupPcs \cup Returned
    /\ ~cancelled
    /\ cancelled' = TRUE
    /\ UNCHANGED <<sigChan, watcherVars, reloadVars>>
    /\ UNCHANGED engineVars
    /\ UNCHANGED guardVars

\* cmdDaemon returns after Run: the process exits and its goroutines end
\* where they are
cmdDaemon_Exit ==
    /\ pc = "returned"
    /\ pc' = "exit"
    /\ wpc' = IF wpc \in WatcherGone THEN wpc ELSE "killed"
    /\ UNCHANGED <<config, now, tickerPeriod, nextTick, tickPending, stateFile,
                   tmpFile, shellOn, kubeCurrent, available, quiet, dElapsed,
                   dCurrent, dTarget, attempt, dTs, lastOutcome, shPc, shCtx,
                   shTs>>
    /\ UNCHANGED guardVars
    /\ UNCHANGED <<cancelled, sigChan, wCtx, wTs, wakeAt, evPending,
                   reloadVars>>

\* the watcher goroutine moves to `at`
WatcherGoes(at) ==
    /\ wpc' = at
    /\ wCtx' = NoContext
    /\ wTs' = ZeroTime
    /\ UNCHANGED <<wakeAt, evPending>>

\* mutant: a watcher that cannot monitor takes the daemon down with it
Watch_Disabled_StopsDaemon ==
    /\ WatcherGoes("disabled")
    /\ cancelled' = TRUE

\* Watch logs "file monitoring disabled" and returns; nothing waits for the
\* goroutine that Run started with go watcher.Watch()
Watch_Disabled ==
    /\ WatcherGoes("disabled")
    /\ cancelled' = cancelled

\* Watch: isFswatchAvailable (runtime.GOOS is darwin and fswatch is in the
\* PATH); if not, Watch logs and returns
Watch_isFswatchAvailable ==
    /\ wpc = "lookpath"
    /\ \E found \in BOOLEAN :
          IF found
          THEN WatcherGoes("stat") /\ cancelled' = cancelled
          ELSE Watch_Disabled
    /\ UNCHANGED <<sigChan, reloadVars>>
    /\ UNCHANGED engineVars
    /\ UNCHANGED guardVars

\* Watch: os.Stat(w.kubeconfigPath); if the file does not exist, Watch logs
\* and returns
Watch_Stat ==
    /\ wpc = "stat"
    /\ \E exists \in BOOLEAN :
          IF exists
          THEN WatcherGoes("top") /\ cancelled' = cancelled
          ELSE Watch_Disabled
    /\ UNCHANGED <<sigChan, reloadVars>>
    /\ UNCHANGED engineVars
    /\ UNCHANGED guardVars

\* watchWithFswatch: the select at the top of the loop, then cmd.Start of
\* fswatch, which can fail
watchWithFswatch_Start ==
    /\ wpc = "top"
    /\ IF cancelled
       THEN wpc' = "exited"
       ELSE \E started \in BOOLEAN :
               wpc' = IF started THEN "scan" ELSE "exited"
    /\ evPending' = FALSE
    /\ UNCHANGED <<wCtx, wTs, wakeAt>>
    /\ UNCHANGED <<cancelled, sigChan, reloadVars>>
    /\ UNCHANGED engineVars
    /\ UNCHANGED guardVars

\* fswatch sees the kubeconfig file created, updated or renamed and writes
\* the event to its stdout; exec.CommandContext has killed it once the
\* context is done
Fswatch_Event ==
    /\ wpc = "scan"
    /\ ~cancelled
    /\ ~evPending
    /\ evPending' = TRUE
    /\ UNCHANGED <<wpc, wCtx, wTs, wakeAt>>
    /\ UNCHANGED <<cancelled, sigChan, reloadVars>>
    /\ UNCHANGED engineVars
    /\ UNCHANGED guardVars

\* watchWithFswatch: scanner.Scan() returns an event that is in the pipe
watchWithFswatch_Scan ==
    /\ wpc = "scan"
    /\ evPending
    /\ evPending' = FALSE
    /\ wpc' = "handle"
    /\ UNCHANGED <<wCtx, wTs, wakeAt>>
    /\ UNCHANGED <<cancelled, sigChan, reloadVars>>
    /\ UNCHANGED engineVars
    /\ UNCHANGED guardVars

\* watchWithFswatch: fswatch exits with an error before any event (it
\* crashed, or the context was cancelled and it was killed): cmd.Wait fails;
\* with the context done the watcher returns, else it sleeps restartDelay
\* (the wait ends within the modelled time: no later than MaxTime, and a
\* crash of fswatch is modelled only while the clock can still advance)
watchWithFswatch_WaitFailed ==
    /\ wpc = "scan"
    /\ ~evPending
    /\ IF cancelled
       THEN wpc' = "exited" /\ wakeAt' = wakeAt
       ELSE /\ now < MaxTime
            /\ wpc' = "sleep"
            /\ wakeAt' = Min(now + restartDelay, MaxTime)
    /\ UNCHANGED <<wCtx, wTs, evPending>>
    /\ UNCHANGED <<cancelled, sigChan, reloadVars>>
    /\ UNCHANGED engineVars
    /\ UNCHANGED guardVars

\* watchWithFswatch: time.Sleep(5 * time.Second) returns; the loop starts over
watchWithFswatch_Slept ==
    /\ wpc = "sleep"
    /\ now >= wakeAt
    /\ wpc' = "top"
    /\ UNCHANGED <<wCtx, wTs, wakeAt, evPending>>
    /\ UNCHANGED <<cancelled, sigChan, reloadVars>>
    /\ UNCHANGED engineVars
    /\ UNCHANGED guardVars

\* watchWithFswatch: fswatch -1 has exited after its events: scanner.Scan()
\* returns false, cmd.Wait returns nil, the loop starts over
watchWithFswatch_Eof ==
    /\ wpc = "eof"
    /\ wpc' = "top"
    /\ UNCHANGED <<wCtx, wTs, wakeAt, evPending>>
    /\ UNCHANGED <<cancelled, sigChan, reloadVars>>
    /\ UNCHANGED engineVars
    /\ UNCHANGED guardVars

\* mutant: the watcher records only a context that differs from the recorded
ShouldRecord_OnlyOnChange(lastContext, currentContext) ==
    lastContext # currentContext

\* handleConfigChange: RecordActivity is called when the context changed
\* and when it did not ("extending timeout")
ShouldRecord(lastContext, currentContext) == TRUE

\* handleConfigChange: GetCurrentContext; an error swallows the event
handleConfigChange_Current ==
    /\ wpc = "handle"
    /\ \E ok \in ToolOutcomes :
          IF GetCurrentContext(ok) = NoContext
          THEN WatcherGoes("eof")
          ELSE /\ wpc' = "last"
               /\ wCtx' = GetCurrentContext(ok)
               /\ UNCHANGED <<wTs, wakeAt, evPending>>
    /\ UNCHANGED <<cancelled, sigChan, reloadVars>>
    /\ UNCHANGED engineVars
    /\ UNCHANGED guardVars

\* handleConfigChange: GetLastActivity; a record that cannot be loaded is
\* recorded afresh, and so is one with another or with the same context
handleConfigChange_GetLastActivity ==
    /\ wpc = "last"
    /\ IF \/ Load(stateFile).err
          \/ ShouldRecord(Load(stateFile).CurrentContext, wCtx)
       THEN /\ wpc' = "record"
            /\ UNCHANGED <<wCtx, wTs, wakeAt, evPending>>
       ELSE WatcherGoes("eof")
    /\ UNCHANGED <<cancelled, sigChan, reloadVars>>
    /\ UNCHANGED engineVars
    /\ UNCHANGED guardVars

\* handleConfigChange: RecordActivity(currentContext): Load, then time.Now();
\* an error is logged by watchWithFswatch
handleConfigChange_RecordLoad ==
    /\ wpc = "record"
    /\ IF Load(stateFile).err
       THEN WatcherGoes("eof")
       ELSE /\ wpc' = "save"
            /\ wTs' = now
            /\ UNCHANGED <<wCtx, wakeAt, evPending>>
    /\ UNCHANGED <<cancelled, sigChan, reloadVars>>
    /\ UNCHANGED engineVars
    /\ UNCHANGED guardVars

\* handleConfigChange: RecordActivity: Save writes the temporary file and
\* renames it while it holds sm.mu, which the daemon's goroutine holds while
\* it is inside its own Save
handleConfigChange_RecordSave ==
    /\ wpc = "save"
    /\ pc \notin WritePcs \cup {"rename"}
    /\ stateFile' = Save(wTs, wCtx)
    /\ WatcherGoes("eof")
    /\ UNCHANGED <<config, now, tickerPeriod, nextTick, tickPending, tmpFile,
                   shellOn, kubeCurrent, available, quiet, pc, dElapsed,
                   dCurrent, dTarget, attempt, dTs, lastOutcome, shPc, shCtx,
                   shTs>>
    /\ UNCHANGED <<cancelled, sigChan, reloadVars>>
    /\ UNCHANGED guardVars

\* one step of the watcher goroutine
WatcherStep ==
    \/ Watch_isFswatchAvailable
    \/ Watch_Stat
    \/ watchWithFswatch_Start
    \/ watchWithFswatch_Scan
    \/ watchWithFswatch_WaitFailed
    \/ watchWithFswatch_Slept
    \/ watchWithFswatch_Eof
    \/ handleConfigChange_Current
    \/ handleConfigChange_GetLastActivity
    \/ handleConfigChange_RecordLoad
    \/ handleConfigChange_RecordSave

\* ------------------------------------------- daemon: configuration reload
\* the two places a configuration file can be at: the default (XDG) path and
\* a path given with --config
Paths == {"xdg", "custom"}

\* GetConfigPath: GetConfigDir()/config.yaml, whatever the daemon was
\* started with
GetConfigPath == "xdg"

\* no file at the path
MissingConfig == [kind |-> "missing"]
\* a file that cannot be read or is not YAML
InvalidConfig == [kind |-> "invalid"]
\* a YAML file, given by the Config it unmarshals to on top of the defaults
Yaml(c) == [kind |-> "yaml", config |-> c]

\* the configuration files looked at for reloading: no optional section, the
\* shortest and the longest duration; the one whose check interval exceeds
\* its default timeout fails Validate
ReloadConfigs ==
    {c \in ConfigFiles :
        /\ Sections(c) = {}
        /\ c.Safety.ValidateDefaultContext
        /\ c.Timeout.Default \in {1, MaxDuration}
        /\ c.Timeout.CheckInterval \in {1, MaxDuration}}

ReloadFiles ==
    {MissingConfig, InvalidConfig} \cup {Yaml(c) : c \in ReloadConfigs}

\* the context names the heuristic is looked at on: the two of the model, a
\* development context, one whose name is in capitals, and one that matches
\* no pattern
DevContext == "dev"
CapitalsContext == "PRD-local"
PlainContext == "kube"
ContextNames == Names \cup {DevContext, CapitalsContext, PlainContext}

\* the characters of each name
Spelling ==
    [n \in ContextNames |->
        CASE n = TestProd -> <<"t", "e", "s", "t", "-", "p", "r", "o", "d">>
          [] n = TestDefault -> <<"t", "e", "s", "t", "-", "d", "e", "f", "a", "u", "l", "t">>
          [] n = DevContext -> <<"d", "e", "v">>
          [] n = CapitalsContext -> <<"P", "R", "D", "-", "l", "o", "c", "a", "l">>
          [] n = PlainContext -> <<"k", "u", "b", "e">>]

\* strings.ToLower, on the capitals that occur
ToLower(str) ==
    [i \in 1..Len(str) |->
        CASE str[i] = "P" -> "p"
          [] str[i] = "R" -> "r"
          [] str[i] = "D" -> "d"
          [] OTHER -> str[i]]

\* strings.Contains
Contains(str, substr) ==
    \E i \in 0..(Len(str) - Len(substr)) :
        SubSeq(str, i + 1, i + Len(substr)) = substr

\* detectSafeDefaultContext: safePatterns, in priority order
safePatterns ==
    <<<<"l", "o", "c", "a", "l">>,
      <<"d", "o", "c", "k", "e", "r", "-", "d", "e", "s", "k", "t", "o", "p">>,
      <<"m", "i", "n", "i", "k", "u", "b", "e">>,
      <<"k", "i", "n", "d", "-">>,
      <<"d", "e", "v">>,
      <<"d", "e", "v", "e", "l", "o", "p", "m", "e", "n", "t">>,
      <<"t", "e", "s", "t">>>>

\* detectSafeDefaultContext: dangerousPatterns
dangerousPatterns ==
    <<<<"p", "r", "o", "d">>,
      <<"p", "r", "o", "d", "u", "c", "t", "i", "o", "n">>,
      <<"s", "t", "a", "g", "e">>,
      <<"s", "t", "a", "g", "i", "n", "g">>,
      <<"p", "r", "d">>>>

\* mutant: no name counts as dangerous
isDangerous_Never(name) == FALSE

\* detectSafeDefaultContext: isDangerous, the lower-cased name contains a
\* dangerous pattern
isDangerous(name) ==
    \E d \in 1..Len(dangerousPatterns) :
        Contains(ToLower(Spelling[name]), dangerousPatterns[d])

\* detectSafeDefaultContext: the test of the inner loop for one pattern
SafeMatch(name, pattern) ==
    /\ Contains(ToLower(Spelling[name]), pattern)
    /\ ~isDangerous(name)

\* the order in which kubectl config get-contexts lists the contexts of the
\* model (with Names only one listed context can be safe, so the order does
\* not matter there)
Listed(contexts) ==
    SelectSeq(<<TestDefault, TestProd>>, LAMBDA n : n \in contexts)

\* the lists kubectl config get-contexts can print for a set of contexts
Orderings(contexts) ==
    {list \in [1..Cardinality(contexts) -> contexts] :
        \A n \in contexts : \E i \in DOMAIN list : list[i] = n}

\* detectSafeDefaultContext on the list GetAvailableContexts returned (empty
\* when it failed): the first listed context that matches the first safe
\* pattern with a match; without one, "CONFIGURE_ME"
detectSafeDefaultContext(contexts) ==
    LET hits == {i \in 1..Len(safePatterns) :
                    \E j \in 1..Len(contexts) :
                        SafeMatch(contexts[j], safePatterns[i])}
    IN  IF hits = {}
        THEN "CONFIGURE_ME"
        ELSE LET first == CHOOSE i \in hits : \A k \in hits : i <= k
                 at == {j \in 1..Len(contexts) :
                           SafeMatch(contexts[j], safePatterns[first])}
             IN  contexts[CHOOSE j \in at : \A k \in at : j <= k]

\* DefaultConfig: 30 minutes and 30 seconds are the longest timeout and the
\* shortest interval of the model
DefaultConfig(contexts) ==
    [Timeout |-> [Default |-> MaxDuration, CheckInterval |-> 1],
     DefaultContext |-> detectSafeDefaultContext(contexts),
     Contexts |-> [n \in {} |-> 0],
     Daemon |-> [Enabled |-> TRUE, LogLevel |-> "info"],
     Notifications |-> [Method |-> "both"],
     Safety |-> [NeverSwitchFrom |-> {}, NeverSwitchTo |-> {},
                 ValidateDefaultContext |-> TRUE]]

\* LoadConfig: the defaults, not validated, when the file is missing; an
\* error when it cannot be parsed or fails Validate
LoadConfig(file, contexts) ==
    IF file.kind = "missing"
    THEN [err |-> FALSE, config |-> DefaultConfig(contexts)]
    ELSE IF file.kind = "invalid"
    THEN [err |-> TRUE, config |-> DefaultConfig(contexts)]
    ELSE [err |-> ~Validate(file.config), config |-> file.config]

\* the configuration files looked at for loading: every combination of the
\* fields of the model
LoadFiles ==
    {MissingConfig, InvalidConfig} \cup {Yaml(c) : c \in ConfigFiles}

\* cmdDaemon -> NewDaemonWithPIDFile: LoadConfig(configPath); an error ends
\* the process (log.Fatalf), else the configuration is the daemon's snapshot
\* and Run creates its ticker from it
NewDaemon_LoadConfig ==
    /\ pc = "load"
    /\ \E ok \in ToolOutcomes, list \in Orderings(available) :
          LET contexts == IF ok THEN list ELSE <<>>
              loaded == LoadConfig(configFiles[configPath], contexts)
          IN  IF loaded.err
              THEN /\ pc' = "failed"
                   /\ lastOutcome' = "load failed"
                   /\ UNCHANGED <<config, tickerPeriod, nextTick>>
              ELSE /\ pc' = "idle"
                   /\ lastOutcome' = "loaded"
                   /\ config' = loaded.config
                   /\ tickerPeriod' = loaded.config.Timeout.CheckInterval
                   /\ nextTick' = now + loaded.config.Timeout.CheckInterval
    /\ UNCHANGED <<now, tickPending, stateFile, tmpFile, shellOn, kubeCurrent,
                   available, quiet, dElapsed, dCurrent, dTarget, attempt,
                   dTs, shPc, shCtx, shTs>>
    /\ UNCHANGED guardVars
    /\ UNCHANGED loopVars

\* mutant: a reload that fails falls back to the defaults
ReloadFailed_Defaults(old, contexts) == DefaultConfig(contexts)

\* ReloadConfig: d.config is assigned only after LoadConfig succeeded
ReloadFailed(old, contexts) == old

\* Run: case sig := <-sigChan, SIGHUP: ReloadConfig loads the file at
\* GetConfigPath() and logs how it went; the ticker is left as it is
Run_Reload ==
    /\ pc = "idle"
    /\ sigChan = "SIGHUP"
    /\ sigChan' = "none"
    /\ \E ok \in ToolOutcomes, list \in Orderings(available) :
          LET contexts == IF ok THEN list ELSE <<>>
              loaded == LoadConfig(configFiles[GetConfigPath], contexts)
          IN  IF loaded.err
              THEN /\ config' = ReloadFailed(config, contexts)
                   /\ lastOutcome' = "reload failed"
              ELSE /\ config' = loaded.config
                   /\ lastOutcome' = "reloaded"
    /\ UNCHANGED <<now, tickerPeriod, nextTick, tickPending, stateFile,
                   tmpFile, shellOn, kubeCurrent, available, quiet, pc,
                   dElapsed, dCurrent, dTarget, attempt, dTs, shPc, shCtx,
                   shTs>>
    /\ UNCHANGED guardVars
    /\ UNCHANGED <<cancelled, watcherVars, reloadVars>>

\* the user rewrites, breaks or deletes the configuration file at a path
EditConfig(path, file) ==
    /\ configFiles[path] # file
    /\ configFiles' = [configFiles EXCEPT ![path] = file]
    /\ UNCHANGED configPath
    /\ UNCHANGED <<cancelled, sigChan, watcherVars>>
    /\ UNCHANGED engineVars
    /\ UNCHANGED guardVars

\* ------------------------------------------------------------ specification
\* neither the signals, nor the watcher, nor a reload are looked at
LoopIdle ==
    /\ cancelled = FALSE
    /\ sigChan = "none"
    /\ wpc = "off"
    /\ wCtx = NoContext
    /\ wTs = ZeroTime
    /\ wakeAt = 0
    /\ evPending = FALSE
    /\ configPath = "xdg"
    /\ configFiles = [p \in Paths |-> MissingConfig]

\* the daemon is in the select loop of Run; the record file is whatever the
\* startup left, the kubeconfig whatever the user set
InitEngine ==
    /\ config \in LoadableConfigs
    /\ now = 1
    /\ tickerPeriod = config.Timeout.CheckInterval
    /\ nextTick = now + tickerPeriod
    /\ tickPending = FALSE
    /\ stateFile \in StateFiles
    /\ tmpFile = NoFile
    /\ shellOn \in BOOLEAN
    /\ (shellOn => config \in ShellConfigs)
    /\ available \in {Names, Names \ {config.DefaultContext}}
    /\ kubeCurrent \in available
    /\ quiet = FALSE
    /\ pc = "idle"
    /\ dElapsed = 0
    /\ dCurrent = NoContext
    /\ dTarget = NoContext
    /\ attempt = 0
    /\ dTs = ZeroTime
    /\ lastOutcome = "none"
    /\ shPc = "idle"
    /\ shCtx = NoContext
    /\ shTs = ZeroTime

Init == InitEngine /\ NoProcesses /\ LoopIdle

Next ==
    \/ ClockAdvance
    \/ TickerFire
    \/ UserSwitch
    \/ GoQuiet
    \/ Shell_GetCurrentContext
    \/ Shell_Load
    \/ Shell_OpenTmp
    \/ Shell_WriteTmp
    \/ Shell_Rename
    \/ DaemonStep

Spec == Init /\ [][Next]_vars


\* time passes, the ticker delivers its ticks and the daemon's main goroutine
\* is scheduled
FairSpec ==
    Spec /\ WF_vars(ClockAdvance) /\ WF_vars(TickerFire) /\ WF_vars(DaemonStep)

\* the timeout engine without the shell integration
TickInit == Init /\ shellOn = FALSE

TickNext ==
    \/ ClockAdvance
    \/ TickerFire
    \/ UserSwitch
    \/ GoQuiet
    \/ DaemonStep

TickSpec == TickInit /\ [][TickNext]_vars

FairTickSpec ==
    /\ TickSpec
    /\ WF_vars(ClockAdvance)
    /\ WF_vars(TickerFire)
    /\ WF_vars(DaemonStep)

\* the PID file alone: the daemon processes that start, acquire, release and
\* die; the engine stands still
PIDFileInit ==
    /\ InitEngine
    /\ config \in ShellConfigs
    /\ shellOn = FALSE
    /\ stateFile = NoFile
    /\ available = Names
    /\ kubeCurrent = config.DefaultContext
    /\ NoProcesses
    /\ LoopIdle

PIDFileNext ==
    \E p \in Procs :
        \/ Start(p)
        \/ Acquire_Stat(p)
        \/ Acquire_ReadPID(p)
        \/ Acquire_isProcessRunning(p)
        \/ Acquire_Remove(p)
        \/ Acquire_WriteFile_Open(p)
        \/ Acquire_WriteFile_Write(p)
        \/ Shutdown(p)
        \/ Release(p)
        \/ Kill(p)

PIDFileSpec == PIDFileInit /\ [][PIDFileNext]_vars

\* the startup of the daemon process DaemonPid, up to its first ticks: the
\* record is what an earlier run left, the PID file is absent, held by a
\* running daemon, or left by a daemon that was killed
StartupInit ==
    /\ config \in LoadableConfigs
    /\ now = 1
    /\ tickerPeriod = config.Timeout.CheckInterval
    /\ nextTick = now + tickerPeriod
    /\ tickPending = FALSE
    /\ stateFile \in StateFiles \cup StaleFiles
    /\ tmpFile = NoFile
    /\ shellOn = FALSE
    /\ available \in {Names, Names \ {config.DefaultContext}}
    /\ kubeCurrent \in available
    /\ quiet = FALSE
    /\ pc = "new"
    /\ dElapsed = 0
    /\ dCurrent = NoContext
    /\ dTarget = NoContext
    /\ attempt = 0
    /\ dTs = ZeroTime
    /\ lastOutcome = "starting"
    /\ shPc = "idle"
    /\ shCtx = NoContext
    /\ shTs = ZeroTime
    /\ \E other \in Procs \ {DaemonPid} :
          \E token \in {"absent", "held", "stale"} :
             /\ pidFile = IF token = "absent"
                          THEN NoPidFile ELSE PidContent(other)
             /\ alive = IF token = "held" THEN {other} ELSE {}
             /\ gpc = [p \in Procs |->
                         IF p # other \/ token = "absent" THEN "none"
                         ELSE IF token = "held" THEN "held" ELSE "killed"]
    /\ existing = [p \in Procs |-> NoPid]
    /\ heldAtStart = [p \in Procs |-> {}]
    /\ LoopIdle

StartupNext ==
    \/ ClockAdvance
    \/ TickerFire
    \/ checkContextChangeOnStartup_Current
    \/ checkContextChangeOnStartup_State
    \/ checkContextChangeOnStartup_RecordLoad
    \/ checkContextChangeOnStartup_RecordOpenTmp
    \/ checkContextChangeOnStartup_RecordWriteTmp
    \/ checkContextChangeOnStartup_RecordRename
    \/ Run_Acquire
    \/ Acquire_Stat(DaemonPid)
    \/ Acquire_ReadPID(DaemonPid)
    \/ Acquire_isProcessRunning(DaemonPid)
    \/ Acquire_Remove(DaemonPid)
    \/ Acquire_WriteFile_Open(DaemonPid)
    \/ Acquire_WriteFile_Write(DaemonPid)
    \/ Run_Loop
    \/ DaemonStep

StartupSpec == StartupInit /\ [][StartupNext]_vars

\* the daemon in its loop, the watcher goroutine just started (go
\* watcher.Watch()), until the daemon is shut down; no shell integration
WatchInit ==
    /\ InitEngine
    /\ config \in ShellConfigs
    /\ shellOn = FALSE
    /\ NoProcesses
    /\ cancelled = FALSE
    /\ sigChan = "none"
    /\ wpc = "lookpath"
    /\ wCtx = NoContext
    /\ wTs = ZeroTime
    /\ wakeAt = 0
    /\ evPending = FALSE
    /\ configPath = "xdg"
    /\ configFiles = [p \in Paths |-> MissingConfig]

WatchNext ==
    \/ ClockAdvance
    \/ TickerFire
    \/ UserSwitch
    \/ DaemonStep
    \/ Signal("SIGTERM")
    \/ Run_Done
    \/ Run_Shutdown
    \/ Daemon_Shutdown
    \/ cmdDaemon_Exit
    \/ Fswatch_Event
    \/ WatcherStep

WatchSpec == WatchInit /\ [][WatchNext]_vars

\* time passes, the ticker delivers its ticks, and both goroutines are
\* scheduled
FairWatchSpec ==
    /\ WatchSpec
    /\ WF_vars(ClockAdvance)
    /\ WF_vars(TickerFire)
    /\ WF_vars(DaemonStep)
    /\ WF_vars(WatcherStep)

\* Run and the watcher with nobody at the keyboard: the daemon is the only
\* one that changes the current context, and it is not shut down
UnattendedNext ==
    \/ ClockAdvance
    \/ TickerFire
    \/ DaemonStep
    \/ Fswatch_Event
    \/ WatcherStep

UnattendedSpec == WatchInit /\ [][UnattendedNext]_vars

\* Run with a watcher that does not get to monitor: Watch's two checks, up to
\* the point where watchWithFswatch would start; the daemon is shut down by
\* a call of Shutdown
DegradedNext ==
    \/ ClockAdvance
    \/ TickerFire
    \/ UserSwitch
    \/ DaemonStep
    \/ Daemon_Shutdown
    \/ Run_Done
    \/ Watch_isFswatchAvailable
    \/ Watch_Stat

DegradedSpec == WatchInit /\ [][DegradedNext]_vars

\* time passes, the ticker delivers its ticks and the main goroutine is
\* scheduled
FairDegradedSpec ==
    /\ DegradedSpec
    /\ WF_vars(ClockAdvance)
    /\ WF_vars(TickerFire)
    /\ WF_vars(DaemonStep)

\* a daemon started by NewDaemon(configPath, ...) on the file at configPath,
\* in the loop of Run; SIGHUP arrives and the files change
ReloadInit ==
    /\ InitEngine
    /\ shellOn = FALSE
    /\ available = Names
    /\ stateFile = Json(1, kubeCurrent, stateVersion)
    /\ NoProcesses
    /\ cancelled = FALSE
    /\ sigChan = "none"
    /\ wpc = "off"
    /\ wCtx = NoContext
    /\ wTs = ZeroTime
    /\ wakeAt = 0
    /\ evPending = FALSE
    /\ configPath \in Paths
    /\ configFiles \in [Paths -> ReloadFiles]
    /\ ~LoadConfig(configFiles[configPath], Listed(available)).err
    /\ config = LoadConfig(configFiles[configPath], Listed(available)).config

ReloadNext ==
    \/ ClockAdvance
    \/ TickerFire
    \/ DaemonStep
    \/ Signal("SIGHUP")
    \/ Run_Reload
    \/ \E path \in Paths, file \in ReloadFiles : EditConfig(path, file)

ReloadSpec == ReloadInit /\ [][ReloadNext]_vars

\* the sets of contexts the kubeconfig holds when a configuration is loaded
MaxContexts == 2
ContextSets == {cs \in SUBSET ContextNames : Cardinality(cs) <= MaxContexts}

\* cmdDaemon about to call NewDaemon(configPath, ...): any file at the path,
\* any small kubeconfig; later SIGHUP makes Run load the file at the default
\* path.  The kubeconfig matters only to a missing file, and the file at the
\* custom path only to a daemon started with it.
LoadInit ==
    /\ configPath \in Paths
    /\ configFiles \in [Paths -> LoadFiles]
    /\ configPath = "xdg" => configFiles["custom"] = MissingConfig
    /\ configPath = "custom" => configFiles["xdg"] \in ReloadFiles
    /\ available \in ContextSets
    /\ (\A path \in Paths : configFiles[path] # MissingConfig)
          => available = Names
    /\ config = DefaultConfig(<<>>)
    /\ now = 1
    /\ tickerPeriod = 0
    /\ nextTick = 0
    /\ tickPending = FALSE
    /\ stateFile = NoFile
    /\ tmpFile = NoFile
    /\ shellOn = FALSE
    /\ kubeCurrent = NoContext
    /\ quiet = FALSE
    /\ pc = "load"
    /\ dElapsed = 0
    /\ dCurrent = NoContext
    /\ dTarget = NoContext
    /\ attempt = 0
    /\ dTs = ZeroTime
    /\ lastOutcome = "starting"
    /\ shPc = "idle"
    /\ shCtx = NoContext
    /\ shTs = ZeroTime
    /\ NoProcesses
    /\ cancelled = FALSE
    /\ sigChan = "none"
    /\ wpc = "off"
    /\ wCtx = NoContext
    /\ wTs = ZeroTime
    /\ wakeAt = 0
    /\ evPending = FALSE

LoadNext ==
    \/ NewDaemon_LoadConfig
    \/ Signal("SIGHUP")
    \/ Run_Reload

LoadSpec == LoadInit /\ [][LoadNext]_vars

\* ------------------------------------------------------------------ claims
\* the tick has called switchContext
SwitchPcs ==
    {"safe", "sw_current", "validate", "exec", "record", "save", "rename"}
    \cup WritePcs
\* the tick runs a kubectl subprocess of the switch
ToolPcs == {"sw_current", "validate", "exec"}
\* the tick switched and is recording the activity
RecordPcs == {"record", "save", "rename"} \cup WritePcs
Switched == {"switched", "switched, record not written"}

\* C1: a tick invokes the switch only if the elapsed time it read at its
\* start is at least the effective timeout of the current context it read
C1_SwitchOnlyAfterTimeout ==
    pc \in SwitchPcs => dElapsed >= GetTimeoutForContext(config, dCurrent)

\* a tick calls the switch with an elapsed time equal to the threshold
C1_Witness ==
    /\ pc = "exec"
    /\ dElapsed = GetTimeoutForContext(config, dCurrent)


\* C2: once nobody records activity any more, the tool succeeds, the current
\* context is neither the default nor in never_switch_from, the default
\* exists and is not in never_switch_to, and the elapsed time has reached the
\* effective timeout (no record write of an earlier tick being in flight),
\* the daemon switches to the default and records it
C2_Due ==
    /\ quiet
    /\ ~Load(stateFile).err
    /\ kubeCurrent # config.DefaultContext
    /\ kubeCurrent \notin config.Safety.NeverSwitchFrom
    /\ config.DefaultContext \in available
    /\ config.DefaultContext \notin config.Safety.NeverSwitchTo
    /\ TimeSinceLastActivity(Load(stateFile), now)
          >= GetTimeoutForContext(config, kubeCurrent)

C2_Done ==
    /\ kubeCurrent = config.DefaultContext
    /\ stateFile.kind = "json"
    /\ stateFile.CurrentContext = config.DefaultContext

\* a tick that has read an elapsed time at or above the threshold, the
\* current context being the one it read
C2_TickDue ==
    /\ quiet
    /\ ~Load(stateFile).err
    /\ config.DefaultContext \in available
    /\ config.DefaultContext \notin config.Safety.NeverSwitchTo
    /\ \/ pc \in SwitchPcs \ RecordPcs /\ kubeCurrent = dCurrent
       \/ /\ pc \in RecordPcs
          /\ kubeCurrent = dTarget
          /\ (pc = "rename" => tmpFile = Save(dTs, dTarget))
       \/ /\ pc = "current"
          /\ kubeCurrent # config.DefaultContext
          /\ kubeCurrent \notin config.Safety.NeverSwitchFrom
          /\ dElapsed >= GetTimeoutForContext(config, kubeCurrent)

\* the switch happens; a tick that starts once the elapsed time has reached
\* the threshold (the second tick at the latest, the first may have read the
\* record earlier) reads it at or above the threshold, and such a tick does
\* not return before the switch and the record of it are done
C2_InactivitySwitch ==
    /\ (C2_Due /\ pc \notin RecordPcs) ~> C2_Done
    /\ [][(C2_Due /\ pc = "idle" /\ pc' # "idle") => C2_TickDue']_vars
    /\ [][(C2_TickDue /\ pc' = "idle") => C2_Done']_vars

\* the daemon switched, in silence, away from a context with its own timeout
C2_Witness ==
    /\ quiet
    /\ C2_Done
    /\ lastOutcome = "switched"
    /\ TestProd \in DOMAIN config.Contexts


C4_NextTickBelowTimeout ==
    [][(lastOutcome \in Switched /\ pc = "current" /\ pc' # "current")
         => /\ dElapsed < GetTimeoutForContext(config, kubeCurrent)
            /\ pc' = "idle"]_vars

\* C4: the tick after a tick that switched does not call the switch while
\* the current context is the default (it returns at the "already the
\* default" check, whatever elapsed time it read); it calls the switch only
\* for another current context whose timeout the elapsed time has reached
C4_NoSecondSwitch ==
    [][(lastOutcome \in Switched /\ pc = "current" /\ pc' # "current")
         => \/ pc' = "idle"
            \/ /\ pc' = "safe"
               /\ kubeCurrent # config.DefaultContext
               /\ dElapsed >= GetTimeoutForContext(config, kubeCurrent)]_vars

\* the tick after a switch has read an elapsed time at or above the timeout
\* of the default context, which is still the current context
C4_Witness ==
    /\ lastOutcome \in Switched
    /\ pc = "current"
    /\ kubeCurrent = config.DefaultContext
    /\ dElapsed >= GetTimeoutForContext(config, config.DefaultContext)

\* C5: a tick that reads a current context in never_switch_from returns
\* without calling the switch, whatever the elapsed time; no tick is in the
\* switch for a context of never_switch_from
C5_NeverSwitchFrom ==
    /\ [](pc \in SwitchPcs => dCurrent \notin config.Safety.NeverSwitchFrom)
    /\ [][(pc = "current" /\ kubeCurrent \in config.Safety.NeverSwitchFrom)
            => pc' \in {"current", "idle"}]_vars

\* a tick that read the zero timestamp (elapsed time of a day) is about to
\* read a current context that is in never_switch_from
C5_Witness ==
    /\ pc = "current"
    /\ dElapsed = Day
    /\ kubeCurrent \in config.Safety.NeverSwitchFrom

\* C6: a switch call whose target is in never_switch_to returns an error
\* without running kubectl and without changing the current context; no
\* kubectl subprocess of the switch runs for a target in never_switch_to
C6_NeverSwitchTo ==
    [][/\ (pc = "safe" /\ dTarget \in config.Safety.NeverSwitchTo
                       /\ pc' # "safe")
            => /\ pc' = "idle"
               /\ lastOutcome' = "error"
               /\ kubeCurrent' = kubeCurrent
       /\ (pc' \in ToolPcs
            => dTarget' \notin config'.Safety.NeverSwitchTo)]_vars

\* the daemon calls the switch with a target that is in never_switch_to
C6_Witness ==
    /\ pc = "safe"
    /\ dTarget \in config.Safety.NeverSwitchTo

\* the steps of Acquire that come before the error or the removal
Checking == {"stat", "read", "probe"}
\* the steps of Acquire after the file was found absent or taken for stale
Taking == {"remove", "write", "fill", "fill_unlinked"}

\* C7 as stated: while a daemon that holds the PID file runs, a process
\* that called Acquire later is still checking or has failed with that
\* daemon's pid, and the file holds that daemon's pid
C7_LaterAcquireFails ==
    \A p \in Procs : \A q \in heldAtStart[p] \cap Holders :
        /\ gpc[p] \in Checking \cup {"failed"}
        /\ (gpc[p] = "failed" => existing[p] = q)
        /\ pidFile = PidContent(q)

\* C8 as stated: at most one running process has Acquire returned nil
C8_AtMostOneHolder == Cardinality(Holders) <= 1

C10_ReclaimOnlyAfterProbe ==
    [][\A p \in Procs :
          (gpc[p] = "remove" /\ gpc'[p] = "write" /\ pidFile.kind # "absent")
            => /\ pidFile.kind = "pid"
               /\ existing[p] = pidFile.pid
               /\ existing[p] \notin alive]_vars

\* C11 as stated: a startup attempt whose Acquire has failed (a running
\* daemon holds the PID file) has not written the activity record
C11_FailedStartupWritesNothing ==
    gpc[DaemonPid] = "failed" => lastOutcome \notin ResetOutcomes

\* C12: a daemon's Run returns only after its Acquire has succeeded once, it
\* never runs Acquire again, and when Run returns (after Shutdown on a
\* signal, or on the cancelled context) the PID file is removed
C12_ReleasedOnReturn ==
    [][\A p \in Procs :
          /\ (gpc'[p] = "exited" /\ gpc[p] # "exited")
                => (gpc[p] \in {"held", "stopping"} /\ pidFile' = NoPidFile)
          /\ gpc[p] = "stopping" => gpc'[p] \in {"stopping", "exited"}
          /\ (gpc[p] = "held" /\ gpc'[p] = "stopping") => pidFile' = NoPidFile
          /\ gpc[p] = "held"
                => gpc'[p] \in {"held", "stopping", "exited", "killed"}]_vars

\* a daemon was shut down by a signal, its Run has returned, and the PID file
\* is gone
C12_Witness ==
    \E p \in Procs : gpc[p] = "exited" /\ pidFile = NoPidFile

\* C13 as stated: after a startup that found the recorded elapsed time above
\* the effective timeout and rewrote the record, the first tick does not
\* perform a switch
C13_FirstTickNeverSwitches ==
    lastOutcome = "started, stale record reset" => pc \notin SwitchPcs

\* C13: a startup that reads the current context and finds the recorded
\* elapsed time above its effective timeout rewrites the record with that
\* context and the time of the rewrite, and the first tick switches only when
\* the elapsed time it read, measured from the rewritten timestamp, has
\* reached the effective timeout
C13_StaleRecordReset ==
    /\ [][(/\ pc = "new_state"
           /\ pc' # "new_state"
           /\ ~Load(stateFile).err
           /\ Load(stateFile).LastActivity # ZeroTime
           /\ now - Load(stateFile).LastActivity
                 > GetTimeoutForContext(config, dCurrent))
             => pc' = "new_record"]_vars
    /\ [][(pc = "new_record" /\ pc' # "new_record" /\ dElapsed > 0)
             => (pc' = "new_save" /\ dTs' = now)]_vars
    /\ [][(pc = "new_rename" /\ pc' = "run" /\ dElapsed > 0)
             => /\ stateFile' = Save(dTs, kubeCurrent)
                /\ lastOutcome' = "started, stale record reset"
                /\ dTs \in 1..now]_vars
    /\ [](lastOutcome = "started, stale record reset"
             => /\ pc \in {"run", "idle"} => stateFile.LastActivity \in 1..now
                /\ pc \in SwitchPcs \ RecordPcs
                      => /\ dElapsed >= GetTimeoutForContext(config, dCurrent)
                         /\ dElapsed <= now - stateFile.LastActivity)

\* the first tick after a startup that reset a stale record goes on to switch
C13_Witness ==
    lastOutcome = "started, stale record reset" /\ pc = "safe"

\* C14: a startup that reads the current context and loads a record naming
\* another context goes on to rewrite the record, and the rewrite commits a
\* record that names the current context with the time of the rewrite
C14_ContextChangeReset ==
    /\ [][(/\ pc = "new_state"
           /\ pc' # "new_state"
           /\ ~Load(stateFile).err
           /\ Load(stateFile).LastActivity # ZeroTime
           /\ Load(stateFile).CurrentContext \notin {"", dCurrent})
             => (pc' = "new_record" /\ dElapsed' = 0)]_vars
    /\ [][(pc = "new_record" /\ pc' # "new_record" /\ ~Load(stateFile).err)
             => (pc' = "new_save" /\ dTs' = now)]_vars
    /\ [][(pc = "new_rename" /\ pc' # "new_rename")
             => /\ stateFile' = Save(dTs, kubeCurrent)
                /\ dTs \in 1..now
                /\ pc' = "run"
                /\ lastOutcome' \in ResetOutcomes]_vars

\* the startup found a record that named another context; the record now
\* names the current context
C14_Witness ==
    /\ lastOutcome = "started, context changed, record reset"
    /\ pc = "run"
    /\ stateFile.CurrentContext = kubeCurrent
    /\ stateFile.LastActivity = now
    /\ stateFile.LastActivity > 1

\* C15 as stated: a startup that found the activity record unreadable does
\* not produce a running daemon
C15_CorruptedRecordFatal ==
    (lastOutcome = "started, warning" /\ Load(stateFile).err) => pc # "idle"

\* the record file exists and json.Unmarshal rejects it, or its version is
\* above stateVersion
Unusable(file) ==
    \/ file.kind = "garbage"
    \/ file.kind = "json" /\ file.Version > stateVersion

\* C16: Load returns an error for a record file that exists and is
\* unparseable or of a newer version; RecordActivity on such a file returns
\* the error without writing, and the file keeps its content
C16_UnusableRecordRejected ==
    /\ [](Unusable(stateFile) => Load(stateFile).err)
    /\ [][(pc = "new_record" /\ pc' # "new_record" /\ Unusable(stateFile))
             => /\ pc' = "run"
                /\ lastOutcome' = "started, warning"
                /\ tmpFile' = tmpFile]_vars
    /\ [][Unusable(stateFile) => stateFile' = stateFile]_vars

\* RecordActivity was called on an unparseable record and failed; the record
\* is as it was
C16_Witness ==
    /\ lastOutcome = "started, warning"
    /\ Unusable(stateFile)
    /\ tmpFile = NoFile

\* C17 as stated: whatever the interleaving of the RecordActivity calls, a
\* record file that parses never becomes one that does not: no reader
\* observes a partially written or unparseable file
C17_RecordAlwaysParseable ==
    [][~Load(stateFile).err => ~Load(stateFile').err]_vars

\* TestCommandInjectionPrevention: names no kubeconfig of the test has
maliciousContextNames ==
    {"$(rm -rf /tmp/test)", "context; ls -la /", "context && ls -la /",
     "context | cat /etc/passwd", "../../../etc/passwd"}

C19_RetryPolicy ==
    /\ [](pc = "exec" => attempt \in 1..3)
    /\ [][(pc = "exec" /\ pc' \notin {"exec", "idle"})
             => (pc' = "record" /\ kubeCurrent' = dTarget)]_vars
    /\ [][(pc = "exec" /\ pc' = "exec" /\ attempt' # attempt)
             => (attempt' = attempt + 1 /\ kubeCurrent' = kubeCurrent)]_vars
    /\ [][(pc = "exec" /\ pc' = "idle")
             => (attempt = 3 /\ lastOutcome' = "error")]_vars
    /\ [][(pc = "exec" /\ attempt < 3 /\ <<pc, attempt>>' # <<pc, attempt>>)
             => \/ pc' = "record" /\ kubeCurrent' = dTarget
                \/ pc' = "exec" /\ attempt' = attempt + 1]_vars
    /\ [][(pc = "sw_current" /\ pc' = "record")
             => (kubeCurrent = dTarget /\ kubeCurrent' = kubeCurrent)]_vars
    /\ [][pc' = "exec" => pc \in {"validate", "exec"}]_vars

\* the third attempt of a switch is about to run
C19_Witness ==
    pc = "exec" /\ attempt = 3

\* C20: a tick whose switch fails does not write the activity record: the
\* daemon writes the record and its temporary file only in the steps of
\* RecordActivity, a tick enters RecordActivity only from a switch that
\* returned nil (the current context is the target), and a tick that has
\* entered RecordActivity does not end with an error
C20_FailedSwitchWritesNothing ==
    /\ [][(pc \notin RecordPcs /\ <<pc, attempt>>' # <<pc, attempt>>)
             => (stateFile' = stateFile /\ tmpFile' = tmpFile)]_vars
    /\ [][(pc \notin RecordPcs /\ pc' \in RecordPcs)
             => /\ pc \in {"sw_current", "exec"}
                /\ pc' = "record"
                /\ kubeCurrent' = dTarget]_vars
    /\ [][(pc \in RecordPcs /\ pc' \notin RecordPcs)
             => (pc' = "idle" /\ lastOutcome' \in Switched)]_vars
    /\ [][(pc \in {"safe", "validate", "exec"} /\ pc' = "idle")
             => (lastOutcome' = "error" /\ stateFile' = stateFile)]_vars

\* a tick whose switch failed has returned; the record, which no other
\* process writes, is the one the tick read
C20_Witness ==
    /\ pc = "idle"
    /\ lastOutcome = "error"
    /\ ~shellOn
    /\ ~Load(stateFile).err

\* C21: a tick that ends with an error has returned to the select loop of
\* Run; every tick that was started returns; the ticker keeps delivering
\* ticks and the loop keeps taking them
C21_TickErrorsContained ==
    /\ [][lastOutcome' = "error" /\ lastOutcome' # lastOutcome
             => pc' = "idle"]_vars
    /\ [](pc \in {"idle", "current"} \cup SwitchPcs)
    /\ (pc # "idle") ~> (pc = "idle")
    /\ tickPending ~> ~tickPending

\* a tick has ended with an error and the next tick is being processed
C21_Witness ==
    lastOutcome = "error" /\ pc = "current"

\* C22 as stated: once the context is cancelled the daemon takes no tick and
\* the watcher takes no event, and a RecordActivity of the watcher that has
\* started runs to its end
C22_NoNewWriteAfterCancel ==
    [][/\ cancelled => ~(pc = "idle" /\ tickPending /\ ~tickPending')
       /\ cancelled => ~(wpc = "scan" /\ wpc' = "handle")
       /\ wpc \in {"record", "save"} => wpc' \in {"record", "save", "eof"}]_vars

\* C23 as stated: when the context is cancelled while SwitchContext is between
\* two attempts, the retry loop makes no further attempt: it neither runs the
\* tool again nor counts another attempt, and the tick returns
C23_RetryObservesCancel ==
    [][(cancelled /\ pc = "exec" /\ attempt > 1
          /\ <<pc, attempt>>' # <<pc, attempt>>)
         => (pc' = "idle" /\ attempt' = attempt /\ lastOutcome' = "error")]_vars

\* C24 as stated: a watcher that is waiting to restart fswatch when the
\* context is cancelled leaves the wait by exiting, not by finishing the wait
\* and going round the loop
C24_RestartWaitObservesCancel ==
    [][(cancelled /\ wpc = "sleep" /\ wpc' \notin {"sleep", "killed"})
         => wpc' = "exited"]_vars

C29_WatcherOptional ==
    /\ [][(wpc' = "disabled" /\ wpc # "disabled")
            => (wpc \in {"lookpath", "stat"} /\ pc' = pc
                /\ cancelled' = cancelled /\ sigChan' = sigChan)]_vars
    /\ [](pc \in Returned => cancelled)
    /\ (wpc = "disabled" /\ tickPending) ~> (~tickPending \/ cancelled)
    /\ (wpc = "disabled" /\ pc \notin {"idle"} \cup Returned) ~> (pc = "idle")

\* the watcher has returned without monitoring and the daemon, not cancelled,
\* has decided a tick since
C29_Witness ==
    /\ wpc = "disabled"
    /\ ~cancelled
    /\ pc = "idle"
    /\ lastOutcome # "none"

C25_FailedReloadKeepsConfig ==
    [][(pc = "idle" /\ sigChan = "SIGHUP" /\ sigChan' = "none")
         => /\ pc' = "idle"
            /\ cancelled' = cancelled
            /\ <<tickerPeriod, nextTick, tickPending>>'
                  = <<tickerPeriod, nextTick, tickPending>>
            /\ lastOutcome' \in {"reloaded", "reload failed"}
            /\ (lastOutcome' = "reload failed") => (config' = config)
            /\ LET file == configFiles[GetConfigPath]
               IN  (lastOutcome' = "reload failed")
                      <=> (\/ file.kind = "invalid"
                           \/ file.kind = "yaml" /\ ~Validate(file.config))]_vars

\* a reload has failed on a file that cannot be loaded and the daemon is in
\* its loop with the configuration it had, which is not the default one
C25_Witness ==
    /\ lastOutcome = "reload failed"
    /\ pc = "idle"
    /\ configFiles[GetConfigPath] # MissingConfig
    /\ config # DefaultConfig(Listed(available))
    /\ Validate(config)

\* C26 as stated: a reload loads the file at the path the daemon was started
\* with: a valid file there becomes the snapshot, an unusable one fails the
\* reload and leaves the snapshot alone
C26_ReloadsStartupPath ==
    [][(pc = "idle" /\ sigChan = "SIGHUP" /\ sigChan' = "none")
         => LET file == configFiles[configPath]
            IN  /\ (file.kind = "yaml" /\ Validate(file.config))
                      => (config' = file.config /\ lastOutcome' = "reloaded")
                /\ (file.kind = "invalid"
                      \/ (file.kind = "yaml" /\ ~Validate(file.config)))
                      => (config' = config
                          /\ lastOutcome' = "reload failed")]_vars

\* C27 as stated: a SIGHUP while the file the daemon was started with is as
\* it was (loading it gives the configuration in effect) leaves the snapshot
\* as it is and logs the reload
C27_ReloadIdempotent ==
    [][(/\ pc = "idle" /\ sigChan = "SIGHUP" /\ sigChan' = "none"
        /\ LoadConfig(configFiles[configPath], Listed(available))
              = [err |-> FALSE, config |-> config])
         => (config' = config /\ lastOutcome' = "reloaded")]_vars

\* C31 as stated: a configuration file whose default context is in its
\* never_switch_to list is rejected when the daemon loads it at startup and
\* when it reloads it, whatever its other fields are
C31_DefaultInNeverSwitchToRejected ==
    [][/\ (/\ pc = "load" /\ pc' # "load"
           /\ configFiles[configPath].kind = "yaml"
           /\ configFiles[configPath].config.DefaultContext
                 \in configFiles[configPath].config.Safety.NeverSwitchTo)
            => (pc' = "failed" /\ config' = config)
       /\ (/\ pc = "idle" /\ sigChan = "SIGHUP" /\ sigChan' = "none"
           /\ configFiles[GetConfigPath].kind = "yaml"
           /\ configFiles[GetConfigPath].config.DefaultContext
                 \in configFiles[GetConfigPath].config.Safety.NeverSwitchTo)
            => (lastOutcome' = "reload failed" /\ config' = config)]_vars

\* C32 as stated: a configuration file whose check interval is not below its
\* default timeout is rejected when it is loaded, so the snapshot of a daemon
\* in its loop has a check interval strictly below its default timeout
C32_IntervalBelowTimeout ==
    pc = "idle" => config.Timeout.CheckInterval < config.Timeout.Default

\* C33: when the daemon has loaded the defaults (no file at its path), the
\* default context that detectSafeDefaultContext chose is "CONFIGURE_ME" or a
\* context of the kubeconfig whose lower-cased name contains a safe pattern
\* and none of prod, production, stage, staging, prd
C33_SafeDefaultHeuristic ==
    (lastOutcome = "loaded" /\ configFiles[configPath] = MissingConfig)
       => \/ config.DefaultContext = "CONFIGURE_ME"
          \/ /\ config.DefaultContext \in available
             /\ \E s \in 1..Len(safePatterns) :
                   Contains(ToLower(Spelling[config.DefaultContext]),
                            safePatterns[s])
             /\ \A d \in 1..Len(dangerousPatterns) :
                   ~Contains(ToLower(Spelling[config.DefaultContext]),
                             dangerousPatterns[d])

\* the kubeconfig holds a context whose name matches a safe and a dangerous
\* pattern and one that matches only a safe one, and the heuristic chose the
\* latter
C33_Witness ==
    /\ lastOutcome = "loaded"
    /\ configFiles[configPath] = MissingConfig
    /\ \E n \in available :
          /\ Contains(ToLower(Spelling[n]), <<"l", "o", "c", "a", "l">>)
          /\ Contains(ToLower(Spelling[n]), <<"p", "r", "d">>)
    /\ config.DefaultContext \in available

\* C34: the time since the last activity that a tick computes is at least 24
\* hours when the record's timestamp is the zero time, and the current time
\* minus the timestamp otherwise
C34_TimeSinceSentinel ==
    [][(pc = "idle" /\ pc' = "current")
         => IF Load(stateFile).LastActivity = ZeroTime
            THEN dElapsed' >= Day
            ELSE dElapsed' = now - Load(stateFile).LastActivity]_vars

\* a tick has read a record without activity and holds the sentinel
C34_Witness ==
    /\ pc = "current"
    /\ Load(stateFile).LastActivity = ZeroTime
    /\ ~Load(stateFile).err
    /\ dElapsed = Day

\* C35: from the decision to switch to the use-context command, the target
\* of the tick is the default context of the configuration snapshot, and a
\* step of executeSwitch that changes the current context of the kubeconfig
\* sets it to that default context
C35_SwitchesOnlyToDefault ==
    /\ [](pc \in {"safe", "sw_current", "validate", "exec"}
            => dTarget = config.DefaultContext)
    /\ [][(pc = "exec" /\ kubeCurrent' # kubeCurrent)
            => kubeCurrent' = config.DefaultContext]_vars

\* the daemon has switched from another context to the default context of a
\* snapshot it got from a reload
C35_Witness ==
    /\ pc = "record"
    /\ lastOutcome = "reloaded"
    /\ dCurrent # config.DefaultContext
    /\ kubeCurrent = config.DefaultContext

\* C36: a tick whose current context is in never_switch_from, or is the
\* default context, or whose elapsed time is below the timeout of the
\* current context, returns without switching, as does one that cannot read
\* the current context; and no step of a tick that returns without switching
\* changes the record file, its temporary file or the current context
C36_NoSwitchNoEffect ==
    [][/\ (/\ pc = "current" /\ pc' # "current"
           /\ \/ kubeCurrent \in config.Safety.NeverSwitchFrom
              \/ kubeCurrent = config.DefaultContext
              \/ dElapsed < GetTimeoutForContext(config, kubeCurrent))
            => (pc' = "idle" /\ lastOutcome' = "noop")
       /\ (\/ pc = "idle" /\ pc' = "current"
           \/ pc = "current" /\ pc' = "idle"
           \/ pc = "idle" /\ tickPending /\ ~tickPending')
            => /\ stateFile' = stateFile
               /\ tmpFile' = tmpFile
               /\ kubeCurrent' = kubeCurrent]_vars

\* a tick has returned without switching while the current context is
\* neither protected nor the default one: its elapsed time was too short
C36_Witness ==
    /\ pc = "idle"
    /\ lastOutcome = "noop"
    /\ kubeCurrent \notin config.Safety.NeverSwitchFrom
    /\ kubeCurrent # config.DefaultContext
    /\ quiet

\* C37 as stated: the timestamp of the record file never decreases: whenever
\* one parseable record replaces another, its LastActivity is not earlier
C37_TimestampNeverDecreases ==
    [][(stateFile.kind = "json" /\ stateFile'.kind = "json")
         => stateFile'.LastActivity >= stateFile.LastActivity]_vars

\* C38 as stated: when the watcher writes its record after a tick has
\* switched to the default context, and the default context is still the
\* current one, the record it writes names the current context, not the one
\* the watcher read before the switch
C38_WatcherRecordNamesCurrent ==
    [][(/\ wpc = "save" /\ wpc' \notin {"save", "killed"}
        /\ pc = "idle" /\ lastOutcome \in Switched
        /\ kubeCurrent = config.DefaultContext)
         => stateFile'.CurrentContext = kubeCurrent]_vars

\* C39 as stated: a step by which a daemon releases the PID file (Shutdown,
\* or the deferred Release when Run returns) removes the file only when the
\* file holds that daemon's own pid, and leaves in place a file that holds
\* the pid of another running daemon
C39_ReleaseRemovesOwnTokenOnly ==
    [][\A p \in Procs :
          (/\ gpc[p] \in {"held", "stopping"}
           /\ gpc'[p] \in {"stopping", "exited"}
           /\ gpc'[p] # gpc[p]
           /\ pidFile # NoPidFile)
            => (/\ pidFile' = NoPidFile => pidFile = PidContent(p)
                /\ (pidFile.kind = "pid" /\ pidFile.pid \in alive \ {p})
                      => pidFile' = pidFile)]_vars

\* C40 as stated: when a reload has succeeded, the period of the daemon's
\* ticker is the check interval of the configuration the daemon now holds,
\* so that the ticks that follow are spaced by it
C40_ReloadSetsTickSpacing ==
    [][(/\ sigChan = "SIGHUP" /\ sigChan' = "none"
        /\ lastOutcome' = "reloaded")
         => (tickerPeriod' = config'.Timeout.CheckInterval)]_vars

====
